---- MODULE Spec2Model ----
(***************************************************************************)
(* State-machine model of the osiris duel kernel (src/src/core): the card  *)
(* arena and field, the chain, the event bus and the processor queue.      *)
(*                                                                         *)
(* Indices are 0-based as in the Rust source: CardId i is cards[i + 1] and *)
(* the element at index i of a stack is stack[i + 1].                      *)
(***************************************************************************)
EXTENDS Integers, Sequences, FiniteSets, TLC

VARIABLES
    cards,              \* DuelData.cards: the card arena
    field,              \* DuelData.field: stacks and zones of both players
    random,             \* DuelData.random: seed and number of words produced
    chain,              \* DuelData.chain.links
    processor_units,    \* DuelData.processor_units, front first
    turn,               \* DuelData.turn
    turn_player,        \* DuelData.turn_player
    effects,            \* DuelData.effects: the effect arena
    triggered_effects,  \* DuelData.triggered_effects
    response,           \* DuelData.response
    pc,                 \* position of the caller: "idle" or inside resolve_chain
    result,             \* what the last finished call returned
    call,               \* the call in progress or last finished, with its entry snapshot
    last_op,            \* the last script callback delivery made by resolve_chain
    phase,              \* DuelData.phase
    lp,                 \* DuelData.lp
    replay,             \* seed and start_lp last given to load_replay, .tick flipped by every call
    shuffle,            \* a vector handed to Mt19937::shuffle_vector, with the call's record
    stack,              \* the call stack of the engine thread, innermost frame last
    guard,              \* the frame holding the MutexGuard of DuelData, 0 if none
    blocked,            \* the thread has locked the mutex it already holds
    opened              \* a replay file handed to Replay::open, with what open returned

vars == <<cards, field, random, chain, processor_units, turn, turn_player,
          effects, triggered_effects, response, pc, result, call, last_op,
          phase, lp, replay, shuffle, stack, guard, blocked, opened>>

(* ------------------------------ bounds -------------------------------- *)

\* cards the arena may hold
MaxCards == 2
\* cards of one load_deck list (main or extra)
MaxDeckLen == 1
\* RNG words one duel may consume
MaxWords == 1

(* ------------------------- program constants -------------------------- *)

LOCATION_DECK == 1
LOCATION_HAND == 2
LOCATION_MZONE == 4
LOCATION_SZONE == 8
LOCATION_GRAVE == 16
LOCATION_REMOVED == 32
LOCATION_EXTRA == 64
MZONE_SIZE == 7
SZONE_SIZE == 8
U8 == 256

Players == {0, 1}
\* Option::None for a CardId / EffectId
None == -1

\* Location::contains for a single-bit flag
Contains(loc, flag) == (loc \div flag) % 2 = 1

IsStackLoc(loc) ==
    \/ Contains(loc, LOCATION_DECK) \/ Contains(loc, LOCATION_HAND)
    \/ Contains(loc, LOCATION_GRAVE) \/ Contains(loc, LOCATION_REMOVED)
    \/ Contains(loc, LOCATION_EXTRA)

(* ------------------------------ the field ------------------------------ *)

Field_new ==
    [deck   |-> [p \in Players |-> <<>>],
     hand   |-> [p \in Players |-> <<>>],
     grave  |-> [p \in Players |-> <<>>],
     remove |-> [p \in Players |-> <<>>],
     extra  |-> [p \in Players |-> <<>>],
     mzone  |-> [p \in Players |-> [i \in 0..(MZONE_SIZE - 1) |-> None]],
     szone  |-> [p \in Players |-> [i \in 0..(SZONE_SIZE - 1) |-> None]]]

\* the name of the stack a location value selects (the if-chain of field.rs)
StackOf(loc) ==
    IF Contains(loc, LOCATION_DECK) THEN "deck"
    ELSE IF Contains(loc, LOCATION_HAND) THEN "hand"
    ELSE IF Contains(loc, LOCATION_GRAVE) THEN "grave"
    ELSE IF Contains(loc, LOCATION_REMOVED) THEN "remove"
    ELSE "extra"

\* Vec::remove(idx), idx 0-based
RemoveAt(s, idx) == SubSeq(s, 1, idx) \o SubSeq(s, idx + 2, Len(s))

\* iter().position(|&c| c == card): 0-based index of the first match, or None
Position(s, card) ==
    IF \E i \in 1..Len(s) : s[i] = card
    THEN (CHOOSE i \in 1..Len(s) : s[i] = card /\ \A j \in 1..(i - 1) : s[j] # card) - 1
    ELSE None

Field_add_card(f, player, location, card, sequence) ==
    IF IsStackLoc(location)
    THEN LET st == StackOf(location)
         IN [f EXCEPT ![st][player] = Append(@, card)]
    ELSE IF Contains(location, LOCATION_MZONE)
    THEN IF sequence < MZONE_SIZE
         THEN [f EXCEPT !.mzone[player][sequence] = card]
         ELSE f
    ELSE IF Contains(location, LOCATION_SZONE)
    THEN IF sequence < SZONE_SIZE
         THEN [f EXCEPT !.szone[player][sequence] = card]
         ELSE f
    ELSE f

\* returns [field, removed]: removed is the CardId taken out, or None
Field_remove_card(f, player, location, sequence) ==
    IF IsStackLoc(location)
    THEN LET st == StackOf(location)
         IN IF sequence < Len(f[st][player])
            THEN [field |-> [f EXCEPT ![st][player] = RemoveAt(@, sequence)],
                  removed |-> f[st][player][sequence + 1]]
            ELSE [field |-> f, removed |-> None]
    ELSE IF Contains(location, LOCATION_MZONE)
    THEN IF sequence < MZONE_SIZE
         THEN [field |-> [f EXCEPT !.mzone[player][sequence] = None],
               removed |-> f.mzone[player][sequence]]
         ELSE [field |-> f, removed |-> None]
    ELSE IF Contains(location, LOCATION_SZONE)
    THEN IF sequence < SZONE_SIZE
         THEN [field |-> [f EXCEPT !.szone[player][sequence] = None],
               removed |-> f.szone[player][sequence]]
         ELSE [field |-> f, removed |-> None]
    ELSE [field |-> f, removed |-> None]

\* the search of remove_card_from_stack without the Vec::remove
Field_remove_card_from_stack_keep(f, player, location, card) ==
    IF IsStackLoc(location) /\ Position(f[StackOf(location)][player], card) # None
    THEN [field |-> f, removed |-> card]
    ELSE [field |-> f, removed |-> None]

Field_remove_card_from_stack(f, player, location, card) ==
    IF IsStackLoc(location)
    THEN LET st  == StackOf(location)
             idx == Position(f[st][player], card)
         IN IF idx # None
            THEN [field |-> [f EXCEPT ![st][player] = RemoveAt(@, idx)],
                  removed |-> card]
            ELSE [field |-> f, removed |-> None]
    ELSE [field |-> f, removed |-> None]

\* smallest empty monster-zone slot of the player, or None
Field_find_empty_mzone_slot(f, player) ==
    IF \E i \in 0..(MZONE_SIZE - 1) : f.mzone[player][i] = None
    THEN CHOOSE i \in 0..(MZONE_SIZE - 1) :
            /\ f.mzone[player][i] = None
            /\ \A j \in 0..(i - 1) : f.mzone[player][j] # None
    ELSE None

(* --------------------------- the card arena ---------------------------- *)

Card_new(code) ==
    [code |-> code, location |-> 0, sequence |-> 0, owner |-> 0,
     controller |-> 0, reason |-> 0, status |-> {}, effects |-> <<>>]

\* the part of DuelData the script bindings and the mutation primitives act on
Data ==
    [cards |-> cards, field |-> field, random |-> random, chain |-> chain,
     effects |-> effects, triggered_effects |-> triggered_effects]

\* DuelData::get_card: is the id inside the arena
HasCard(d, id) == id >= 0 /\ id < Len(d.cards)

\* removal of a card from the place its record names: zones by index, stacks by search
RemoveFromCurrent(d, card_id) ==
    LET c == d.cards[card_id + 1]
    IN IF Contains(c.location, LOCATION_MZONE) \/ Contains(c.location, LOCATION_SZONE)
       THEN Field_remove_card(d.field, c.controller, c.location, c.sequence)
       ELSE Field_remove_card_from_stack(d.field, c.controller, c.location, card_id)

\* returns [d, ok]
send_card_to(d, card_id, target_player, location, reason) ==
    IF ~HasCard(d, card_id)
    THEN [d |-> d, ok |-> FALSE]
    ELSE LET d1 == [d EXCEPT !.cards[card_id + 1].reason = reason]
             rm == RemoveFromCurrent(d1, card_id)
         IN IF rm.removed = None
            THEN [d |-> d1, ok |-> FALSE]
            ELSE [d |-> [d1 EXCEPT
                           !.cards[card_id + 1].controller = target_player,
                           !.cards[card_id + 1].location = location,
                           !.cards[card_id + 1].sequence = 0,
                           !.field = Field_add_card(rm.field, target_player, location, card_id, 0)],
                  ok |-> TRUE]

\* the index a stack append ended at, as the u8 the record stores
LastIndex(f, player, location) == (Len(f[StackOf(location)][player]) - 1) % U8

\* returns [d, ok]
move_card_internal(d, card_id, target_player, target_loc, target_seq) ==
    IF ~HasCard(d, card_id)
    THEN [d |-> d, ok |-> FALSE]
    ELSE LET rm == RemoveFromCurrent(d, card_id)
         IN IF rm.removed = None
            THEN [d |-> d, ok |-> FALSE]
            ELSE LET f2 == Field_add_card(rm.field, target_player, target_loc, card_id, target_seq)
                     sq == IF IsStackLoc(target_loc)
                           THEN LastIndex(f2, target_player, target_loc)
                           ELSE target_seq
                 IN [d |-> [d EXCEPT
                              !.cards[card_id + 1].controller = target_player,
                              !.cards[card_id + 1].location = target_loc,
                              !.cards[card_id + 1].sequence = sq,
                              !.field = f2],
                     ok |-> TRUE]

\* create_card pushing the new card onto the end of the deck
create_card_back(d, code, owner) ==
    LET id == Len(d.cards)
        c  == [Card_new(code) EXCEPT !.owner = owner, !.controller = owner,
                                     !.location = LOCATION_DECK, !.sequence = 0]
    IN [d |-> [d EXCEPT !.cards = Append(@, c),
                        !.field.deck[owner] = Append(@, id)],
        id |-> id]

\* returns [d, id]
create_card(d, code, owner) ==
    LET id == Len(d.cards)
        c  == [Card_new(code) EXCEPT !.owner = owner, !.controller = owner,
                                     !.location = LOCATION_DECK, !.sequence = 0]
    IN [d |-> [d EXCEPT !.cards = Append(@, c),
                        !.field.deck[owner] = <<id>> \o @],
        id |-> id]

\* the loop body of DuelData::draw taking the card at index 0 of the deck
DrawOne_front(d, player) ==
    LET dk == d.field.deck[player]
        id == dk[1]
        h2 == Append(d.field.hand[player], id)
        d1 == [d EXCEPT !.field.deck[player] = Tail(dk),
                        !.field.hand[player] = h2]
    IN IF id >= 0 /\ id < Len(d.cards)
       THEN [d1 EXCEPT !.cards[id + 1].location = LOCATION_HAND,
                       !.cards[id + 1].sequence = (Len(h2) - 1) % U8]
       ELSE d1

\* one iteration of the loop of DuelData::draw
DrawOne(d, player) ==
    LET dk == d.field.deck[player]
        id == dk[Len(dk)]
        h2 == Append(d.field.hand[player], id)
        d1 == [d EXCEPT !.field.deck[player] = SubSeq(dk, 1, Len(dk) - 1),
                        !.field.hand[player] = h2]
    IN IF HasCard(d, id)
       THEN [d1 EXCEPT !.cards[id + 1].location = LOCATION_HAND,
                       !.cards[id + 1].sequence = (Len(h2) - 1) % U8]
       ELSE d1

\* the loop of DuelData::draw running until the deck is empty
RECURSIVE draw_all(_, _, _)
draw_all(d, player, count) ==
    IF d.field.deck[player] = <<>>
    THEN d
    ELSE draw_all(DrawOne(d, player), player, count)

RECURSIVE draw(_, _, _)
draw(d, player, count) ==
    IF count = 0 \/ d.field.deck[player] = <<>>
    THEN d
    ELSE draw(DrawOne(d, player), player, count - 1)

RECURSIVE LoadMain(_, _, _)
LoadMain(d, player, main) ==
    IF main = <<>>
    THEN d
    ELSE LET cr == create_card(d, Head(main), player)
         IN LoadMain([cr.d EXCEPT !.cards[cr.id + 1].location = LOCATION_DECK],
                     player, Tail(main))

RECURSIVE LoadExtra(_, _, _)
LoadExtra(d, player, extra) ==
    IF extra = <<>>
    THEN d
    ELSE LET cr  == create_card(d, Head(extra), player)
             pos == Position(cr.d.field.deck[player], cr.id)
             f1  == IF pos # None
                    THEN [cr.d.field EXCEPT !.deck[player] = RemoveAt(@, pos)]
                    ELSE cr.d.field
             seq == Len(f1.extra[player]) % U8
             f2  == Field_add_card(f1, player, LOCATION_EXTRA, cr.id, seq)
         IN LoadExtra([cr.d EXCEPT !.field = f2,
                                   !.cards[cr.id + 1].location = LOCATION_EXTRA,
                                   !.cards[cr.id + 1].sequence = seq],
                      player, Tail(extra))

load_deck_keep(d, player, main, extra) ==
    LoadExtra(LoadMain(d, player, main), player, extra)

load_deck(d, player, main, extra) ==
    LET d0 == [d EXCEPT !.field.deck[player] = <<>>, !.field.extra[player] = <<>>]
    IN LoadExtra(LoadMain(d0, player, main), player, extra)

(* ------------------------------- the RNG -------------------------------- *)

\* The generator is kept as its seed and the number of words it has produced
\* since seeding (the 624-word table and mti are a function of the two). The
\* words themselves are inputs: every u32 word of the sample 0..MaxWord.
Mt19937_new(seed) == [seed |-> seed, mti |-> 0]

\* 2^32 mod range, the rejection bound of get_next_integer
RejectBound(range) == ((65536 % range) * (65536 % range)) % range

\* the words left after the redraw loop has found a word >= bound (<<>> if none is)
RECURSIVE SkipRejected(_, _)
SkipRejected(ws, bound) ==
    IF ws = <<>> \/ Head(ws) >= bound
    THEN ws
    ELSE SkipRejected(Tail(ws), bound)

\* returns [ok, value, rest]: ok is FALSE when ws runs out before a word is accepted
get_next_integer(ws, min, max) ==
    LET range == max - min + 1
        acc   == SkipRejected(ws, RejectBound(range))
    IN IF acc = <<>>
       THEN [ok |-> FALSE, value |-> min, rest |-> <<>>]
       ELSE [ok |-> TRUE, value |-> min + (Head(acc) % range), rest |-> Tail(acc)]

\* v[i] = v[r] in place of the swap
Swap_copy(v, i, r) == [v EXCEPT ![i + 1] = v[r + 1]]

\* v.swap(i, r), 0-based
Swap(v, i, r) == [v EXCEPT ![i + 1] = v[r + 1], ![r + 1] = v[i + 1]]

\* the loop drawing every index from the whole range [0, last - 1]
RECURSIVE ShuffleLoop_whole(_, _, _, _)
ShuffleLoop_whole(v, i, last, ws) ==
    IF last = 0 \/ i >= last - 1
    THEN [ok |-> TRUE, v |-> v, rest |-> ws, swaps |-> <<>>]
    ELSE LET g == get_next_integer(ws, 0, last - 1)
         IN IF ~g.ok
            THEN [ok |-> FALSE, v |-> v, rest |-> <<>>, swaps |-> <<>>]
            ELSE LET nx == ShuffleLoop_whole(Swap(v, i, g.value), i + 1, last, g.rest)
                 IN [nx EXCEPT !.swaps = <<[i |-> i, min |-> 0, max |-> last - 1, r |-> g.value]>> \o @]

\* the loop of shuffle_vector from index i on; last is already clipped to the
\* length. swaps lists, in order, the index i, the range handed to
\* get_next_integer and the index r it returned
RECURSIVE ShuffleLoop(_, _, _, _)
ShuffleLoop(v, i, last, ws) ==
    IF last = 0 \/ i >= last - 1
    THEN [ok |-> TRUE, v |-> v, rest |-> ws, swaps |-> <<>>]
    ELSE LET g == get_next_integer(ws, i, last - 1)
         IN IF ~g.ok
            THEN [ok |-> FALSE, v |-> v, rest |-> <<>>, swaps |-> <<>>]
            ELSE LET nx == ShuffleLoop(Swap(v, i, g.value), i + 1, last, g.rest)
                 IN [nx EXCEPT !.swaps = <<[i |-> i, min |-> i, max |-> last - 1, r |-> g.value]>> \o @]

shuffle_vector(v, first, last, ws) ==
    ShuffleLoop(v, first, IF last > Len(v) THEN Len(v) ELSE last, ws)

(* ----------------------- effects, events, the chain --------------------- *)

\* An effect's script callbacks are kept by what they do when called:
\*   condition: "none" (no callback), "true", "false", "error" (raises),
\*              "nil" (returns nil or nothing), "value" (returns a value that
\*              is neither a boolean nor nil, such as a number)
\*   operation: "none" (no callback), "tograve" (Duel.SendtoGrave(e:GetHandler(),
\*              REASON_EFFECT)), "summon" (Duel.Summon(tp, e:GetHandler())),
\*              "error" (raises)
Effect_new(owner, code, condition, operation) ==
    [owner |-> owner, code |-> code, condition |-> condition, operation |-> operation]

\* Option<Group>: {} is None and {g} is Some(g)
NoGroup == {}
SomeGroup(g) == {g}

\* returns [d, id]
register_effect(d, effect, owner_card) ==
    LET id == Len(d.effects)
        d1 == [d EXCEPT !.effects = Append(@, effect)]
    IN [d |-> IF owner_card # None /\ HasCard(d, owner_card)
              THEN [d1 EXCEPT !.cards[owner_card + 1].effects = Append(@, id)]
              ELSE d1,
        id |-> id]

\* the EffectIds whose code matches, in arena order
RECURSIVE MatchingFrom(_, _, _)
MatchingFrom(effs, code, idx) ==
    IF idx >= Len(effs)
    THEN <<>>
    ELSE (IF effs[idx + 1].code = code THEN <<idx>> ELSE <<>>)
         \o MatchingFrom(effs, code, idx + 1)

get_matching_effects(d, code) == MatchingFrom(d.effects, code, 0)

\* (e, tp, eg, ep, ev, re, r, rp)
get_lua_args(effect_id, trigger_player, event_cards, reason_player, reason_effect) ==
    <<effect_id, trigger_player, event_cards, reason_player, 0, reason_effect, 0, reason_player>>

get_lua_args_with_context(effect_id, trigger_player, event_cards, reason_player, reason_effect, event_value, event_reason) ==
    <<effect_id, trigger_player, event_cards, reason_player, event_value,
      reason_effect, event_reason, reason_player>>

\* no tuple was delivered (the effect has no condition callback)
NoArgs == <<>>

\* The chain link pushed for a triggered effect. cond_args is not a field of
\* ChainLink: it records the tuple that was handed to the condition callback
\* when the link was pushed, for comparison at resolution.
NewLink(eid, event_cards, reason_player, reason_effect, cond_args) ==
    [effect_id |-> eid, trigger_player |-> 0, check_player |-> 0,
     target_cards |-> event_cards, reason_effect |-> reason_effect,
     reason_player |-> reason_player, evt_group |-> event_cards,
     evt_player |-> reason_player, evt_value |-> 0, evt_effect |-> reason_effect,
     evt_reason |-> 0, evt_r_player |-> reason_player,
     cond_args |-> cond_args]

\* Chain::add inserting at the front of links
Chain_add_front(links, link) == <<link>> \o links

Chain_add(links, link) == Append(links, link)

\* Chain::pop taking the oldest link instead of the newest
Chain_pop_front(links) ==
    [links |-> Tail(links), link |-> Head(links)]

\* returns [links, link]: the link popped and what is left
Chain_pop(links) ==
    [links |-> SubSeq(links, 1, Len(links) - 1), link |-> links[Len(links)]]

\* the condition call taken as passed whatever it yields
ConditionResult_always(condition) == TRUE

\* what func.call::<_, bool>(args) on the condition callback yields:
\* Ok(b) => b, Err(_) => false. A raised error is the Err; the return value is
\* converted to bool as Lua tests it, so nil is false and every value other
\* than false and nil is true.
ConditionResult(condition) == condition \in {"true", "value"}

\* step 3 of raise_event_static over the candidates still to be evaluated
RECURSIVE RaiseLoop(_, _, _, _, _)
RaiseLoop(d, cands, event_cards, reason_player, reason_effect) ==
    IF cands = <<>>
    THEN d
    ELSE LET eid   == Head(cands)
             cond  == d.effects[eid + 1].condition
             args  == get_lua_args(eid, reason_player, event_cards, reason_player, reason_effect)
             res   == IF cond # "none" THEN ConditionResult(cond) ELSE TRUE
             given == IF cond # "none" THEN args ELSE NoArgs
             d1    == IF res
                      THEN [d EXCEPT
                              !.triggered_effects = Append(@, eid),
                              !.chain = Chain_add(@, NewLink(eid, event_cards, reason_player,
                                                             reason_effect, given))]
                      ELSE d
         IN RaiseLoop(d1, Tail(cands), event_cards, reason_player, reason_effect)

raise_event_static(d, code, event_cards, reason_player, reason_effect) ==
    RaiseLoop(d, get_matching_effects(d, code), event_cards, reason_player, reason_effect)

(* --------------------------- script bindings ---------------------------- *)

REASON_EFFECT == 1

\* Duel.SendtoGrave(card, reason), single-card branch; returns [d, count]
Duel_SendtoGrave(d, card_id, reason) ==
    IF HasCard(d, card_id)
    THEN LET r == send_card_to(d, card_id, d.cards[card_id + 1].owner, LOCATION_GRAVE, reason)
         IN [d |-> r.d, count |-> IF r.ok THEN 1 ELSE 0]
    ELSE [d |-> d, count |-> 0]

\* Duel.SendtoGrave(group, reason), Group branch: the loop `for &card_id in
\* &group.0` over a std HashSet, taken in the order the set happens to
\* iterate in; order is that order. Returns [d, count]
RECURSIVE Duel_SendtoGrave_Group(_, _, _)
Duel_SendtoGrave_Group(d, order, reason) ==
    IF order = <<>>
    THEN [d |-> d, count |-> 0]
    ELSE LET one  == Duel_SendtoGrave(d, Head(order), reason)
             rest == Duel_SendtoGrave_Group(one.d, Tail(order), reason)
         IN [d |-> rest.d, count |-> one.count + rest.count]

\* Duel.Summon(player, card, _, _); returns [d, count]
Duel_Summon(d, player, card_id) ==
    IF Field_find_empty_mzone_slot(d.field, player) # None
    THEN LET r == send_card_to(d, card_id, player, LOCATION_MZONE, 0)
         IN IF r.ok
            THEN LET d1 == [r.d EXCEPT !.cards[card_id + 1].status = @ \cup {"SUMMON_TURN"}]
                 IN [d |-> raise_event_static(d1, "EVENT_SUMMON_SUCCESS",
                                              SomeGroup({card_id}), player, None),
                     count |-> 1]
            ELSE [d |-> r.d, count |-> 0]
    ELSE [d |-> d, count |-> 0]

\* Card:RegisterEffect(e) on Card(card_id)
Card_RegisterEffect(d, card_id, code, condition, operation) ==
    register_effect(d, Effect_new(card_id, code, condition, operation), card_id).d

\* what the operation callback does when called with args = (e, tp, eg, ...)
RunOperation(d, operation, args) ==
    LET e == args[1]
        h == d.effects[e + 1].owner
    IN CASE operation = "tograve" -> Duel_SendtoGrave(d, h, REASON_EFFECT).d
         [] operation = "summon"  -> Duel_Summon(d, args[2], h).d
         [] OTHER                 -> d

\* returns [d, args]: args is the tuple handed to the operation, NoArgs if none was called
execute_effect_static(d, effect_id, event_cards, reason_effect, reason_player, trigger_player, event_value, event_reason) ==
    LET op == IF effect_id >= 0 /\ effect_id < Len(d.effects)
              THEN d.effects[effect_id + 1].operation
              ELSE "none"
    IN IF op # "none"
       THEN LET args == get_lua_args_with_context(effect_id, trigger_player, event_cards,
                                                  reason_player, reason_effect,
                                                  event_value, event_reason)
            IN [d |-> RunOperation(d, op, args), args |-> args]
       ELSE [d |-> d, args |-> NoArgs]

(* --------------------------- processor units --------------------------- *)

PHASE_DRAW == 1
PHASE_STANDBY == 2
PHASE_MAIN1 == 4
PHASE_MAIN2 == 256
USIZE_MAX == 2147483647

ProcessorUnit_new(type_, step, arg1, arg2) ==
    [type_ |-> type_, step |-> step, arg1 |-> arg1, arg2 |-> arg2]

ProcessorUnit_turn(step) == ProcessorUnit_new("Turn", step, 0, 0)
ProcessorUnit_phase_event(step, phase_) == ProcessorUnit_new("PhaseEvent", step, phase_, 0)
ProcessorUnit_solve_chain(step) == ProcessorUnit_new("SolveChain", step, 0, 0)

\* VecDeque::pop_front / push_front
pop_front(q) == Tail(q)
push_front(q, u) == <<u>> \o q

\* the unit process() peeks at
Front == Head(processor_units)

\* no unit was dispatched by the call (chain priority, empty queue)
NoUnit == [type_ |-> "None", step |-> 0, arg1 |-> 0, arg2 |-> 0]

\* a call of process() begins: via is the way it reaches resolve_chain ("none" if
\* it does not), unit the processor unit it dispatches
Enter(via, unit) == call' = [tick |-> 1 - call.tick, via |-> via, unit |-> unit]

(* ------------------------------- inputs -------------------------------- *)

\* inputs of the script and test interface, drawn from small sets
Codes == {11}
EventCodes == {"EVENT_DRAW", "EVENT_SUMMON_SUCCESS"}
Conditions == {"none", "true", "false", "error"}
Operations == {"none", "tograve", "summon", "error"}
\* effects the arena may hold
MaxEffects == 2
\* cards the arena may hold in the processor specification
MaxProcCards == 2
\* cards the arena may hold in the chain specification
MaxChainCards == 1
\* the callbacks registered in the processor specification
ProcConditions == {"true", "false"}
ProcOperations == {"none", "summon", "error"}
\* the conditions of the script-error specification
RaiseConditions == {"true", "error", "nil", "value"}
\* units the queue may hold
MaxQueue == 2
\* links the chain may hold, and entries of triggered_effects
MaxChain == 2
\* largest u32 word of the sample the generator may produce
MaxWord == 3
\* card codes of the deck lists in the loading specification
LoadCodes == {11, 12}
\* cards of one main list in the loading specification
MaxLoadLen == 2
\* cards the arena may hold in the loading specification
MaxLoadCards == 4

\* elements of the longest vector handed to shuffle_vector on its own
MaxShuffleLen == 3
\* u32 words one shuffle_vector call may consume
MaxShuffleWords == 3

Words == 0..MaxWord

\* every sequence over S of length at most n
RECURSIVE SeqsUpTo(_, _)
SeqsUpTo(S, n) ==
    IF n = 0
    THEN {<<>>}
    ELSE LET shorter == SeqsUpTo(S, n - 1)
         IN shorter \cup {Append(q, x) : q \in {r \in shorter : Len(r) = n - 1}, x \in S}

(* ------------------------------ the state ------------------------------ *)

\* Phase::empty()
PHASE_EMPTY == 0
\* the life points a duel starts with unless the replay gives its own
DEFAULT_LP == 8000

\* no replay has been loaded
NoReplay == [tick |-> 0, seed |-> None, start_lp |-> 0]

\* the starting life points load_replay assigns without the 8000 default
StartLp_raw(start_lp) == start_lp

\* the starting life points load_replay assigns
StartLp(start_lp) == IF start_lp > 0 THEN start_lp ELSE DEFAULT_LP

\* the loop of load_replay over replay.decks.iter().enumerate()
RECURSIVE LoadDecks(_, _, _)
LoadDecks(d, decks, p_idx) ==
    IF decks = <<>>
    THEN d
    ELSE LoadDecks(load_deck(d, p_idx, Head(decks).main, Head(decks).extra), Tail(decks), p_idx + 1)

\* no file has been handed to Replay::open
NoFile == [file |-> <<>>, done |-> FALSE, res |-> <<>>]

\* no vector has been handed to shuffle_vector
NoShuffle == [v |-> <<>>, first |-> 0, last |-> 0, done |-> FALSE, out |-> <<>>, used |-> 0, swaps |-> <<>>]

\* Duel::new_with_db(seed, _)
Init ==
    /\ cards = <<>>
    /\ field = Field_new
    /\ random = Mt19937_new(42)
    /\ chain = <<>>
    /\ processor_units = <<ProcessorUnit_turn(0)>>
    /\ turn = 0
    /\ turn_player = 0
    /\ effects = <<>>
    /\ triggered_effects = <<>>
    /\ response = 0
    /\ pc = "idle"
    /\ result = "none"
    /\ call = [tick |-> 0, via |-> "none", unit |-> NoUnit]
    /\ last_op = <<>>
    /\ phase = PHASE_EMPTY
    /\ lp = [p \in Players |-> DEFAULT_LP]
    /\ replay = NoReplay
    /\ shuffle = NoShuffle
    /\ stack = <<>>
    /\ guard = 0
    /\ blocked = FALSE
    /\ opened = NoFile

\* the shared DuelData fields take the values of d
SetData(d) ==
    /\ cards' = d.cards
    /\ field' = d.field
    /\ random' = d.random
    /\ chain' = d.chain
    /\ effects' = d.effects
    /\ triggered_effects' = d.triggered_effects

\* the model's cap on the chain and on triggered_effects
WithinCaps(d) == Len(d.chain) <= MaxChain /\ Len(d.triggered_effects) <= MaxChain

ProcVarsUnchanged == UNCHANGED <<processor_units, turn, turn_player, response, pc, result, call, last_op, phase, lp, replay, shuffle, stack, guard, blocked, opened>>

(* ---------------- operations of the arena and the field ----------------- *)

\* BeforeStart restricts an operation to the time before the first process()
\* call: decks are loaded and card scripts register their effects before the
\* duel is stepped.
Always == TRUE
BeforeStart == result = "none"

CreateCard(max, when) ==
    /\ pc = "idle"
    /\ when
    /\ Len(cards) < max
    /\ \E code \in Codes, owner \in Players :
          SetData(create_card(Data, code, owner).d)
    /\ ProcVarsUnchanged

\* target sequences offered to move_card: slot 0 and index 7, which is past the
\* monster zone and the last spell/trap slot
MoveSeqs == {0, 7}
\* target locations offered to move_card; the deck is entered by create_card,
\* the extra stack by load_deck and the grave by Duel.SendtoGrave
MoveLocs == {LOCATION_HAND, LOCATION_MZONE, LOCATION_SZONE, LOCATION_REMOVED}

MoveCard ==
    /\ pc = "idle"
    /\ \E card_id \in 0..MaxCards, p \in Players, loc \in MoveLocs, seq \in MoveSeqs :
          /\ IsStackLoc(loc) => seq = 0
          /\ SetData(move_card_internal(Data, card_id, p, loc, seq).d)
    /\ ProcVarsUnchanged

LoadDeck(codes, maxlen, max) ==
    /\ pc = "idle"
    /\ \E p \in Players, main \in SeqsUpTo(codes, maxlen), extra \in SeqsUpTo(codes, maxlen) :
          /\ Len(cards) + Len(main) + Len(extra) <= max
          /\ SetData(load_deck(Data, p, main, extra))
    /\ ProcVarsUnchanged

\* the replays offered to load_replay: a seed, the start_lp of its parameters
\* (an i32) and one DeckArray per player at most
Seeds == {42, 7}
StartLps == {-1, 0, 4000}
DeckArrays == {[main |-> m, extra |-> e] : m \in SeqsUpTo(Codes, MaxLoadLen), e \in SeqsUpTo(Codes, MaxDeckLen)}
ReplayDecks == SeqsUpTo(DeckArrays, Cardinality(Players))

RECURSIVE CardsOf(_)
CardsOf(decks) ==
    IF decks = <<>>
    THEN 0
    ELSE Len(Head(decks).main) + Len(Head(decks).extra) + CardsOf(Tail(decks))

\* Duel::load_replay
LoadReplay ==
    /\ pc = "idle"
    /\ \E seed \in Seeds, start_lp \in StartLps, decks \in ReplayDecks :
          /\ Len(cards) + CardsOf(decks) <= MaxCards
          /\ SetData(LoadDecks([Data EXCEPT !.random = Mt19937_new(seed)], decks, 0))
          /\ lp' = [p \in Players |-> StartLp(start_lp)]
          /\ replay' = [tick |-> 1 - replay.tick, seed |-> seed, start_lp |-> start_lp]
    /\ processor_units' = <<ProcessorUnit_turn(0)>>
    /\ phase' = PHASE_EMPTY
    /\ turn' = 0
    /\ UNCHANGED <<turn_player, response, pc, result, call, last_op, shuffle, stack, guard, blocked, opened>>

Draw ==
    /\ pc = "idle"
    /\ \E p \in Players, count \in 0..2 :
          SetData(draw(Data, p, count))
    /\ ProcVarsUnchanged

\* DuelData::shuffle_deck; ws are the words the generator produces during the call
ShuffleDeck ==
    /\ pc = "idle"
    /\ \E p \in Players, ws \in SeqsUpTo(Words, MaxWords) :
          LET sh == shuffle_vector(field.deck[p], 0, USIZE_MAX, ws)
          IN /\ random.mti + Len(ws) <= MaxWords
             /\ sh.ok /\ sh.rest = <<>>
             /\ SetData([Data EXCEPT !.field.deck[p] = sh.v,
                                     !.random.mti = @ + Len(ws)])
    /\ ProcVarsUnchanged

\* Duel.Summon called from a script run by the host (lua.load(...).eval())
LuaSummon(maxid) ==
    /\ pc = "idle"
    /\ \E p \in Players, card_id \in 0..maxid :
          LET r == Duel_Summon(Data, p, card_id)
          IN /\ WithinCaps(r.d)
             /\ SetData(r.d)
    /\ ProcVarsUnchanged

\* Duel.SendtoGrave(Card(id), reason) called from a script run by the host
LuaSendtoGrave(maxid) ==
    /\ pc = "idle"
    /\ \E card_id \in 0..maxid, reason \in {0, REASON_EFFECT} :
          SetData(Duel_SendtoGrave(Data, card_id, reason).d)
    /\ ProcVarsUnchanged

\* the orders a HashSet holding the cards of g can iterate in
IterationOrders(g) ==
    {o \in SeqsUpTo(g, Cardinality(g)) : Len(o) = Cardinality(g) /\ \A i, j \in 1..Len(o) : i # j => o[i] # o[j]}

\* the groups a script builds with Group.CreateGroup and g:AddCard
Groups == SUBSET (0..(MaxCards - 1))

\* Duel.SendtoGrave(g, reason) on a Group, called from a script run by the host
LuaSendtoGraveGroup ==
    /\ pc = "idle"
    /\ \E g \in Groups, reason \in {0, REASON_EFFECT} :
          \E order \in IterationOrders(g) :
              SetData(Duel_SendtoGrave_Group(Data, order, reason).d)
    /\ ProcVarsUnchanged

\* Card(id):RegisterEffect(e) called from a script run by the host
LuaRegisterEffect(ids, conds, ops) ==
    /\ pc = "idle"
    /\ BeforeStart
    /\ Len(effects) < MaxEffects
    /\ \E card_id \in ids, code \in EventCodes, cond \in conds, op \in ops :
          SetData(Card_RegisterEffect(Data, card_id, code, cond, op))
    /\ ProcVarsUnchanged

\* DuelData::register_effect(effect, Some(card_id)) called by the host on an
\* effect built with Effect::new(_, owner, ...)
RegisterEffect ==
    /\ pc = "idle"
    /\ BeforeStart
    /\ Len(effects) < MaxEffects
    /\ \E owner \in 0..MaxCards, card_id \in 0..MaxCards, code \in EventCodes :
          SetData(register_effect(Data, Effect_new(owner, code, "none", "none"), card_id).d)
    /\ ProcVarsUnchanged

(* ------------------------------ process() ------------------------------ *)

\* Every branch of Duel::process is one action. A call flips call.tick, so a
\* call that changes nothing else is still a step. resolve_chain is a loop of
\* script calls that can re-enter the engine: the caller sits at pc = "resolve"
\* and every iteration is one step (ResolveStep), the loop exit is ResolveReturn.


\* set_responsei
Responses == 0..MaxEffects

\* the host answers a Waiting
SetResponse ==
    /\ pc = "idle"
    /\ result = "Waiting"
    /\ \E r \in Responses : response' = r
    /\ UNCHANGED <<cards, field, random, chain, processor_units, turn, turn_player,
                   effects, triggered_effects, pc, result, call, last_op, phase, lp, replay, shuffle, stack, guard, blocked, opened>>

\* the host pushes a unit at the front of the queue (processor_units is public)
PushUnits ==
    {ProcessorUnit_turn(0),
     ProcessorUnit_new("PointEvent", 0, 0, 0),
     ProcessorUnit_phase_event(0, PHASE_MAIN2),
     ProcessorUnit_phase_event(0, PHASE_STANDBY)}

PushFront ==
    /\ pc = "idle"
    /\ result \in {"Waiting", "End"}
    /\ Len(chain) = 0
    /\ Len(processor_units) < MaxQueue
    /\ \E u \in PushUnits : processor_units' = push_front(processor_units, u)
    /\ UNCHANGED <<cards, field, random, chain, turn, turn_player, effects,
                   triggered_effects, response, pc, result, call, last_op, phase, lp, replay, shuffle, stack, guard, blocked, opened>>

\* the chain branch without its return: the front unit is consumed as well
ProcessChain_fallthrough ==
    /\ pc = "idle"
    /\ Len(chain) > 0
    /\ pc' = "resolve"
    /\ Enter("chain", NoUnit)
    /\ processor_units' = IF processor_units = <<>> THEN <<>> ELSE pop_front(processor_units)
    /\ UNCHANGED <<cards, field, random, chain, turn, turn_player,
                   effects, triggered_effects, response, result, last_op, phase, lp, replay, shuffle, stack, guard, blocked, opened>>

\* chain priority: a non-empty chain is resolved before any unit is looked at
ProcessChain ==
    /\ pc = "idle"
    /\ Len(chain) > 0
    /\ pc' = "resolve"
    /\ Enter("chain", NoUnit)
    /\ UNCHANGED <<cards, field, random, chain, processor_units, turn, turn_player,
                   effects, triggered_effects, response, result, last_op, phase, lp, replay, shuffle, stack, guard, blocked, opened>>

ProcessEnd ==
    /\ pc = "idle"
    /\ Len(chain) = 0
    /\ processor_units = <<>>
    /\ result' = "End"
    /\ Enter("none", NoUnit)
    /\ UNCHANGED <<cards, field, random, chain, processor_units, turn, turn_player,
                   effects, triggered_effects, response, pc, last_op, phase, lp, replay, shuffle, stack, guard, blocked, opened>>

\* the guard shared by the unit branches: idle, empty chain, a unit at the front
AtUnit(type_) ==
    /\ pc = "idle"
    /\ Len(chain) = 0
    /\ processor_units # <<>>
    /\ Front.type_ = type_

ProcessTurn ==
    /\ AtUnit("Turn")
    /\ processor_units' = push_front(pop_front(processor_units),
                                     ProcessorUnit_phase_event(0, PHASE_DRAW))
    /\ result' = "Continue"
    /\ Enter("none", Front)
    /\ UNCHANGED <<cards, field, random, chain, turn, turn_player, effects,
                   triggered_effects, response, pc, last_op, phase, lp, replay, shuffle, stack, guard, blocked, opened>>

ProcessPhaseDraw ==
    /\ AtUnit("PhaseEvent")
    /\ Front.arg1 = PHASE_DRAW
    /\ LET d1 == draw(Data, turn_player, 1)
           d2 == raise_event_static(d1, "EVENT_DRAW", NoGroup, turn_player, None)
       IN /\ WithinCaps(d2)
          /\ SetData(d2)
    /\ processor_units' = push_front(pop_front(processor_units),
                                     ProcessorUnit_new("PointEvent", 0, 0, 0))
    /\ result' = "Continue"
    /\ Enter("none", Front)
    /\ UNCHANGED <<turn, turn_player, response, pc, last_op, phase, lp, replay, shuffle, stack, guard, blocked, opened>>

\* the main-phase branch popping its unit as the unhandled-phase branch does
ProcessPhaseMain_pop ==
    /\ AtUnit("PhaseEvent")
    /\ Front.arg1 = PHASE_MAIN1 \/ Front.arg1 = PHASE_MAIN2
    /\ processor_units' = pop_front(processor_units)
    /\ result' = "Waiting"
    /\ Enter("none", Front)
    /\ UNCHANGED <<cards, field, random, chain, turn, turn_player,
                   effects, triggered_effects, response, pc, last_op, phase, lp, replay, shuffle, stack, guard, blocked, opened>>

ProcessPhaseMain ==
    /\ AtUnit("PhaseEvent")
    /\ Front.arg1 = PHASE_MAIN1 \/ Front.arg1 = PHASE_MAIN2
    /\ result' = "Waiting"
    /\ Enter("none", Front)
    /\ UNCHANGED <<cards, field, random, chain, processor_units, turn, turn_player,
                   effects, triggered_effects, response, pc, last_op, phase, lp, replay, shuffle, stack, guard, blocked, opened>>

\* the PointEvent branch clearing triggered_effects when it hands over to SelectChain
ProcessPointEvent_clear ==
    /\ AtUnit("PointEvent")
    /\ processor_units' =
          IF triggered_effects = <<>>
          THEN pop_front(processor_units)
          ELSE push_front(pop_front(processor_units),
                          ProcessorUnit_new("SelectChain", 0, 0, 0))
    /\ triggered_effects' = <<>>
    /\ result' = "Continue"
    /\ Enter("none", Front)
    /\ UNCHANGED <<cards, field, random, chain, turn, turn_player, effects,
                   response, pc, last_op, phase, lp, replay, shuffle, stack, guard, blocked, opened>>

ProcessPointEvent ==
    /\ AtUnit("PointEvent")
    /\ processor_units' =
          IF triggered_effects = <<>>
          THEN pop_front(processor_units)
          ELSE push_front(pop_front(processor_units),
                          ProcessorUnit_new("SelectChain", 0, 0, 0))
    /\ result' = "Continue"
    /\ Enter("none", Front)
    /\ UNCHANGED <<cards, field, random, chain, turn, turn_player, effects,
                   triggered_effects, response, pc, last_op, phase, lp, replay, shuffle, stack, guard, blocked, opened>>

\* step 0 of SelectChain deciding on the stored response at once, as step 1 does
ProcessSelectChain0_decide ==
    /\ AtUnit("SelectChain")
    /\ Front.step = 0
    /\ triggered_effects' = <<>>
    /\ response' = 0
    /\ processor_units' =
          IF response # 0 /\ \E i \in 1..Len(triggered_effects) : triggered_effects[i] = response
          THEN push_front(pop_front(processor_units), ProcessorUnit_solve_chain(0))
          ELSE push_front(pop_front(processor_units),
                          ProcessorUnit_phase_event(0, PHASE_MAIN1))
    /\ result' = "Waiting"
    /\ Enter("none", Front)
    /\ UNCHANGED <<cards, field, random, chain, turn, turn_player, effects, pc, last_op, phase, lp, replay, shuffle, stack, guard, blocked, opened>>

ProcessSelectChain0 ==
    /\ AtUnit("SelectChain")
    /\ Front.step = 0
    /\ processor_units' = [processor_units EXCEPT ![1].step = 1]
    /\ result' = "Waiting"
    /\ Enter("none", Front)
    /\ UNCHANGED <<cards, field, random, chain, turn, turn_player, effects,
                   triggered_effects, response, pc, last_op, phase, lp, replay, shuffle, stack, guard, blocked, opened>>

\* found_matching_effect taking any non-zero response as a selection
FoundMatchingEffect_any(resp, triggered) == resp # 0

\* does the response name one of the triggered effects (e.0 == response as u32)
FoundMatchingEffect(resp, triggered) ==
    resp # 0 /\ \E i \in 1..Len(triggered) : resp >= 0 /\ triggered[i] = resp

\* step 1 of SelectChain leaving the stored response in place
ProcessSelectChain1_keep ==
    /\ AtUnit("SelectChain")
    /\ Front.step = 1
    /\ triggered_effects' = <<>>
    /\ processor_units' =
          IF response # 0 /\ \E i \in 1..Len(triggered_effects) : triggered_effects[i] = response
          THEN push_front(pop_front(processor_units), ProcessorUnit_solve_chain(0))
          ELSE push_front(pop_front(processor_units),
                          ProcessorUnit_phase_event(0, PHASE_MAIN1))
    /\ result' = "Continue"
    /\ Enter("none", Front)
    /\ UNCHANGED <<cards, field, random, chain, turn, turn_player, effects, response,
                   pc, last_op, phase, lp, replay, shuffle, stack, guard, blocked, opened>>

ProcessSelectChain1 ==
    /\ AtUnit("SelectChain")
    /\ Front.step = 1
    /\ triggered_effects' = <<>>
    /\ response' = 0
    /\ processor_units' =
          IF response # 0 /\ FoundMatchingEffect(response, triggered_effects)
          THEN push_front(pop_front(processor_units), ProcessorUnit_solve_chain(0))
          ELSE push_front(pop_front(processor_units),
                          ProcessorUnit_phase_event(0, PHASE_MAIN1))
    /\ result' = "Continue"
    /\ Enter("none", Front)
    /\ UNCHANGED <<cards, field, random, chain, turn, turn_player, effects, pc, last_op, phase, lp, replay, shuffle, stack, guard, blocked, opened>>

\* the SolveChain branch without the push of the next phase event
ProcessSolveChain_nopush ==
    /\ AtUnit("SolveChain")
    /\ Front.step = 0
    /\ processor_units' = pop_front(processor_units)
    /\ pc' = "resolve"
    /\ Enter("solve", Front)
    /\ UNCHANGED <<cards, field, random, chain, turn, turn_player, effects,
                   triggered_effects, response, result, last_op, phase, lp, replay, shuffle, stack, guard, blocked, opened>>

ProcessSolveChain ==
    /\ AtUnit("SolveChain")
    /\ Front.step = 0
    /\ processor_units' = push_front(pop_front(processor_units),
                                     ProcessorUnit_phase_event(0, PHASE_MAIN1))
    /\ pc' = "resolve"
    /\ Enter("solve", Front)
    /\ UNCHANGED <<cards, field, random, chain, turn, turn_player, effects,
                   triggered_effects, response, result, last_op, phase, lp, replay, shuffle, stack, guard, blocked, opened>>

\* the branches that only pop the front unit: an unhandled phase, an invalid
\* step of SelectChain or SolveChain, an unhandled unit type
PopOnly(u) ==
    \/ u.type_ = "PhaseEvent" /\ u.arg1 \notin {PHASE_DRAW, PHASE_MAIN1, PHASE_MAIN2}
    \/ u.type_ = "SelectChain" /\ u.step \notin {0, 1}
    \/ u.type_ = "SolveChain" /\ u.step # 0
    \/ u.type_ \notin {"Turn", "PhaseEvent", "PointEvent", "SelectChain", "SolveChain"}

ProcessPop ==
    /\ pc = "idle"
    /\ Len(chain) = 0
    /\ processor_units # <<>>
    /\ PopOnly(Front)
    /\ processor_units' = pop_front(processor_units)
    /\ result' = "Continue"
    /\ Enter("none", Front)
    /\ UNCHANGED <<cards, field, random, chain, turn, turn_player, effects,
                   triggered_effects, response, pc, last_op, phase, lp, replay, shuffle, stack, guard, blocked, opened>>

\* one iteration of the loop of resolve_chain: pop the top link, run its operation
ResolveStep ==
    /\ pc = "resolve"
    /\ Len(chain) > 0
    /\ LET po == Chain_pop(chain)
           l  == po.link
           d0 == [Data EXCEPT !.chain = po.links]
           ex == execute_effect_static(d0, l.effect_id, l.evt_group, l.evt_effect,
                                       l.evt_r_player, l.trigger_player,
                                       l.evt_value, l.evt_reason)
       IN /\ WithinCaps(ex.d)
          /\ SetData(ex.d)
          /\ last_op' = <<[link |-> l, args |-> ex.args]>>
    /\ UNCHANGED <<processor_units, turn, turn_player, response, pc, result, call, phase, lp, replay, shuffle, stack, guard, blocked, opened>>

\* the last MaxChain entries of triggered_effects
RecentTriggers(t) == IF Len(t) > MaxChain THEN SubSeq(t, Len(t) - MaxChain + 1, Len(t)) ELSE t

\* one iteration of the loop of resolve_chain, as ResolveStep, for the
\* specification of the loop on its own: triggered_effects, which the loop
\* never reads and which only grows while it runs, is kept to its most recent
\* entries, so that a loop that goes on for ever comes back to a state it
\* has been in; last_op tells one iteration from the next by the bit iter
ResolveStepRecent ==
    /\ pc = "resolve"
    /\ Len(chain) > 0
    /\ LET po == Chain_pop(chain)
           l  == po.link
           d0 == [Data EXCEPT !.chain = po.links]
           ex == execute_effect_static(d0, l.effect_id, l.evt_group, l.evt_effect,
                                       l.evt_r_player, l.trigger_player,
                                       l.evt_value, l.evt_reason)
       IN /\ Len(ex.d.chain) <= MaxChain
          /\ SetData([ex.d EXCEPT !.triggered_effects = RecentTriggers(@)])
          /\ last_op' = <<[link |-> l, args |-> ex.args,
                           iter |-> IF last_op = <<>> THEN 0 ELSE 1 - last_op[1].iter]>>
    /\ UNCHANGED <<processor_units, turn, turn_player, response, pc, result, call, phase, lp, replay, shuffle, stack, guard, blocked, opened>>

\* the loop of resolve_chain finds the chain empty; process() returns Continue
ResolveReturn ==
    /\ pc = "resolve"
    /\ Len(chain) = 0
    /\ pc' = "idle"
    /\ result' = IF call.via = "direct" THEN result ELSE "Continue"
    /\ UNCHANGED <<cards, field, random, chain, processor_units, turn, turn_player,
                   effects, triggered_effects, response, call, last_op, phase, lp, replay, shuffle, stack, guard, blocked, opened>>

\* Duel::resolve_chain called by the host
ResolveChainCall ==
    /\ pc = "idle"
    /\ pc' = "resolve"
    /\ call' = [call EXCEPT !.via = "direct"]
    /\ UNCHANGED <<cards, field, random, chain, processor_units, turn, turn_player,
                   effects, triggered_effects, response, result, last_op, phase, lp, replay, shuffle, stack, guard, blocked, opened>>

Process ==
    \/ ProcessChain
    \/ ProcessEnd
    \/ ProcessTurn
    \/ ProcessPhaseDraw
    \/ ProcessPhaseMain
    \/ ProcessPointEvent
    \/ ProcessSelectChain0
    \/ ProcessSelectChain1
    \/ ProcessSolveChain
    \/ ProcessPop
    \/ ResolveStep
    \/ ResolveReturn

(* ------------------- the mutex of DuelData and the call stack ------------ *)

\* The engine runs on one thread. Every function that touches DuelData is
\* listed below as the sequence of its steps that matter for the mutex:
\*   lock    data.lock().unwrap(), the guard belongs to the frame
\*   unlock  drop(guard), or the end of the block the guard was bound in
\*   call    a call of another listed function
\*   script  a call of a Lua function (condition or operation)
\*   bind    a Lua function calls one of the bindings
\*   goto    the next step is one of .to (a branch or a loop of the source)
\*   ret     the function returns; a guard still bound in it is dropped
\* Which branch is taken depends on the duel state; here every branch can be.
Ins(op, fn, to) == [op |-> op, fn |-> fn, to |-> to]

\* frames one call stack may hold
MaxDepth == 8

\* Duel::resolve_chain
ResolveChainCode ==
    << Ins("lock", "", {}),                        \* 415
       Ins("unlock", "", {}),                      \* 417
       Ins("goto", "", {4, 6}),                    \* 418: Some(link) / None
       Ins("call", "execute_effect_static", {}),   \* 420
       Ins("goto", "", {1}),                       \* loop
       Ins("ret", "", {}) >>                       \* 422 break

\* Duel::execute_effect_static
ExecuteEffectCode ==
    << Ins("lock", "", {}),                        \* 510
       Ins("unlock", "", {}),                      \* 516
       Ins("goto", "", {4, 5}),                    \* 518: Some(func) / None
       Ins("script", "operation", {}),             \* 522
       Ins("ret", "", {}) >>

\* Duel::raise_event_static
RaiseEventCode ==
    << Ins("lock", "", {}),                        \* 431
       Ins("unlock", "", {}),                      \* 433
       Ins("goto", "", {4, 7}),                    \* 436: next candidate / done
       Ins("lock", "", {}),                        \* 439
       Ins("unlock", "", {}),                      \* 449
       Ins("goto", "", {3}),
       Ins("goto", "", {8, 13}),                   \* 454: next callable / done
       Ins("goto", "", {9, 10}),                   \* 455: Some(func) / None
       Ins("script", "condition", {}),             \* 458
       Ins("goto", "", {11, 7}),                   \* 465: result / not
       Ins("lock", "", {}),                        \* 466
       Ins("goto", "", {14}),
       Ins("ret", "", {}),
       Ins("unlock", "", {}),                      \* 484
       Ins("goto", "", {7}) >>

\* the Summon binding without its drop(data_guard)
DuelSummonCode_held ==
    << Ins("lock", "", {}),
       Ins("goto", "", {3, 6}),
       Ins("goto", "", {4}),
       Ins("call", "raise_event_static", {}),
       Ins("ret", "", {}),
       Ins("ret", "", {}) >>

\* the Summon binding
DuelSummonCode ==
    << Ins("lock", "", {}),                        \* 336
       Ins("goto", "", {3, 6}),                    \* 341, 343: summoned / not
       Ins("unlock", "", {}),                      \* 353 drop(data_guard)
       Ins("call", "raise_event_static", {}),      \* 355
       Ins("ret", "", {}),                         \* 356
       Ins("ret", "", {}) >>                       \* 360

\* a binding that locks, works on the data and returns: Duel.SendtoGrave,
\* Duel.ShuffleDeck, Duel.Draw, Card:RegisterEffect, e:GetHandler
LockedBindingCode == << Ins("lock", "", {}), Ins("ret", "", {}) >>

\* Duel::draw
DuelDrawCode == << Ins("lock", "", {}), Ins("ret", "", {}) >>

\* Duel::process
ProcessCode ==
    << Ins("lock", "", {}),                        \* 574
       Ins("goto", "", {3, 6}),                    \* 575: chain / no chain
       Ins("unlock", "", {}),                      \* 576
       Ins("call", "resolve_chain", {}),           \* 577
       Ins("ret", "", {}),                         \* 578
       Ins("unlock", "", {}),                      \* 580
       Ins("lock", "", {}),                        \* 583
       Ins("goto", "", {9, 16, 19}),               \* PhaseEvent(DRAW) / SolveChain / others
       Ins("unlock", "", {}),                      \* 605
       Ins("lock", "", {}),                        \* 607
       Ins("unlock", "", {}),                      \* 609
       Ins("call", "draw", {}),                    \* 610
       Ins("call", "raise_event_static", {}),      \* 614
       Ins("lock", "", {}),                        \* 616
       Ins("ret", "", {}),                         \* 618
       Ins("unlock", "", {}),                      \* 716
       Ins("call", "resolve_chain", {}),           \* 719
       Ins("ret", "", {}),                         \* 722
       Ins("ret", "", {}) >>

\* a Lua function: it calls bindings, any number of them, and returns
ScriptCode ==
    << Ins("goto", "", {2, 4}),
       Ins("bind", "", {}),
       Ins("goto", "", {1}),
       Ins("ret", "", {}) >>

\* the bindings a Lua function can call
Bindings == {"Duel.Summon", "Duel.SendtoGrave", "Duel.ShuffleDeck", "Duel.Draw",
             "Card:RegisterEffect", "e:GetHandler"}

\* the Lua functions the engine calls, and the chunk the host runs
ScriptFns == {"condition", "operation", "chunk"}

CodeOf(fn) ==
    CASE fn = "process"               -> ProcessCode
      [] fn = "resolve_chain"         -> ResolveChainCode
      [] fn = "execute_effect_static" -> ExecuteEffectCode
      [] fn = "raise_event_static"    -> RaiseEventCode
      [] fn = "draw"                  -> DuelDrawCode
      [] fn = "Duel.Summon"           -> DuelSummonCode
      [] fn \in ScriptFns             -> ScriptCode
      [] OTHER                        -> LockedBindingCode

\* what the host calls: process(), resolve_chain(), and lua.load(chunk).eval()
HostEntries == {"process", "resolve_chain", "chunk"}

Depth == Len(stack)
Top == stack[Depth]
TopIns == CodeOf(Top.fn)[Top.ip]
Advance(to) == [stack EXCEPT ![Depth].ip = to]
Push(fn) == Append(Advance(Top.ip + 1), [fn |-> fn, ip |-> 1])

DataUnchanged ==
    UNCHANGED <<cards, field, random, chain, processor_units, turn, turn_player, effects,
                triggered_effects, response, pc, result, call, last_op, phase, lp, replay,
                shuffle, opened>>

\* the host calls into the engine
HostCall ==
    /\ stack = <<>>
    /\ \E fn \in HostEntries : stack' = <<[fn |-> fn, ip |-> 1]>>
    /\ UNCHANGED <<guard, blocked>>
    /\ DataUnchanged

\* data.lock(): the frame gets the guard; std::sync::Mutex is not reentrant, a
\* lock() by the thread that holds the guard never returns
StepLock ==
    /\ stack # <<>> /\ ~blocked
    /\ TopIns.op = "lock"
    /\ IF guard # 0
       THEN blocked' = TRUE /\ UNCHANGED <<stack, guard>>
       ELSE guard' = Depth /\ stack' = Advance(Top.ip + 1) /\ UNCHANGED blocked
    /\ DataUnchanged

\* drop(guard)
StepUnlock ==
    /\ stack # <<>> /\ ~blocked
    /\ TopIns.op = "unlock"
    /\ guard' = IF guard = Depth THEN 0 ELSE guard
    /\ stack' = Advance(Top.ip + 1)
    /\ UNCHANGED blocked
    /\ DataUnchanged

\* a call of an engine function, of a Lua function, or of a binding by a Lua function
StepCall ==
    /\ stack # <<>> /\ ~blocked
    /\ Depth < MaxDepth
    /\ \/ TopIns.op \in {"call", "script"} /\ stack' = Push(TopIns.fn)
       \/ TopIns.op = "bind" /\ \E b \in Bindings : stack' = Push(b)
    /\ UNCHANGED <<guard, blocked>>
    /\ DataUnchanged

\* a branch or a loop
StepGoto ==
    /\ stack # <<>> /\ ~blocked
    /\ TopIns.op = "goto"
    /\ \E to \in TopIns.to : stack' = Advance(to)
    /\ UNCHANGED <<guard, blocked>>
    /\ DataUnchanged

\* the function returns and the guard bound in it, if any, is dropped
StepRet ==
    /\ stack # <<>> /\ ~blocked
    /\ TopIns.op = "ret"
    /\ stack' = SubSeq(stack, 1, Depth - 1)
    /\ guard' = IF guard = Depth THEN 0 ELSE guard
    /\ UNCHANGED blocked
    /\ DataUnchanged

(* ------------------------------ Replay::open ---------------------------- *)

REPLAY_ID_YRP1 == 829452921
REPLAY_ID_YRP2 == 846230137

\* header ids of the files: the two known ids, zero and yrp1 with one bit flipped
ReplayIds == {REPLAY_ID_YRP1, REPLAY_ID_YRP2, 0, REPLAY_ID_YRP1 + 1}

\* what the LZMA decoders make of a compressed body: the attempt that succeeds
\* ("props", "raw", "native"), none ("fail"), or a result whose length is not
\* the datasize of the header ("size")
LzmaOutcomes == {"props", "raw", "native", "fail", "size"}

\* what the data stream holds after the header: a well-formed stream ("ok"), a
\* stream that ends early ("short"), a deck count above MAINC_MAX ("count"),
\* and in single mode a script name of invalid length ("slen") or one that
\* does not start with ./single/ ("name")
DataKinds == {"ok", "short", "count", "slen", "name"}

\* the files handed to Replay::open: exists is File::open succeeding, header
\* and ext the 32 bytes of the base header and the 48 of the extension being
\* there to read, compressed, tag and single the bits of the flag
ReplayFiles ==
    [exists : BOOLEAN, id : ReplayIds, header : BOOLEAN, ext : BOOLEAN,
     compressed : BOOLEAN, tag : BOOLEAN, single : BOOLEAN,
     lzma : LzmaOutcomes, data : DataKinds]

ReplayErr(msg) == [ok |-> FALSE, err |-> msg, decompressed_ok |-> FALSE, players |-> 0, decks |-> 0]
ReplayOk(dec, players, decks) == [ok |-> TRUE, err |-> "", decompressed_ok |-> dec, players |-> players, decks |-> decks]

\* Replay::open: the Result it returns, with the numbers of players and decks
\* of the Replay
Replay_open(f) ==
    IF ~f.exists THEN ReplayErr("open failed")
    ELSE IF ~f.header THEN ReplayErr("read header")
    ELSE IF f.id = REPLAY_ID_YRP2 /\ ~f.ext THEN ReplayErr("read ext")
    ELSE LET decompressed_ok == ~f.compressed \/ f.lzma \in {"props", "raw", "native"}
             player_count == IF f.tag THEN 4 ELSE 2
         IN IF ~decompressed_ok THEN ReplayOk(FALSE, 0, 0)
            ELSE IF f.data = "short" THEN ReplayErr("read data")
            ELSE IF f.single
                 THEN IF f.data = "slen" THEN ReplayErr("slen invalid")
                      ELSE IF f.data = "name" THEN ReplayErr("script name")
                      ELSE ReplayOk(TRUE, player_count, 0)
                 ELSE IF f.data = "count" THEN ReplayErr("count too large")
                      ELSE ReplayOk(TRUE, player_count, player_count)

\* a fresh duel and one file about to be opened
InitOpen ==
    /\ cards = <<>>
    /\ field = Field_new
    /\ random = Mt19937_new(42)
    /\ chain = <<>>
    /\ processor_units = <<ProcessorUnit_turn(0)>>
    /\ turn = 0
    /\ turn_player = 0
    /\ effects = <<>>
    /\ triggered_effects = <<>>
    /\ response = 0
    /\ pc = "idle"
    /\ result = "none"
    /\ call = [tick |-> 0, via |-> "none", unit |-> NoUnit]
    /\ last_op = <<>>
    /\ phase = PHASE_EMPTY
    /\ lp = [p \in Players |-> DEFAULT_LP]
    /\ replay = NoReplay
    /\ shuffle = NoShuffle
    /\ stack = <<>>
    /\ guard = 0
    /\ blocked = FALSE
    /\ opened \in {[NoFile EXCEPT !.file = f] : f \in ReplayFiles}

\* Replay::open(path) returns
OpenReplay ==
    /\ ~opened.done
    /\ opened' = [opened EXCEPT !.done = TRUE, !.res = Replay_open(opened.file)]
    /\ UNCHANGED <<cards, field, random, chain, processor_units, turn, turn_player, effects,
                   triggered_effects, response, pc, result, call, last_op, phase, lp, replay,
                   shuffle, stack, guard, blocked>>

(* ------------------- Mt19937::shuffle_vector on its own ------------------ *)

\* the vectors handed to shuffle_vector: <<10, 20, 30, ...>> and its prefixes,
\* and one vector holding an element twice
ShuffleVectors == {[i \in 1..n |-> 10 * i] : n \in 0..MaxShuffleLen} \cup {<<10, 10, 20>>}

\* the arguments first and last: indices inside, at and past the end of the
\* vector, and the usize::MAX shuffle_deck passes
ShuffleFirsts == 0..(MaxShuffleLen + 1)
ShuffleLasts == 0..(MaxShuffleLen + 1) \cup {USIZE_MAX}

\* a fresh duel and one pending call shuffle_vector(v, first, last)
InitShuffle ==
    /\ cards = <<>>
    /\ field = Field_new
    /\ random = Mt19937_new(42)
    /\ chain = <<>>
    /\ processor_units = <<ProcessorUnit_turn(0)>>
    /\ turn = 0
    /\ turn_player = 0
    /\ effects = <<>>
    /\ triggered_effects = <<>>
    /\ response = 0
    /\ pc = "idle"
    /\ result = "none"
    /\ call = [tick |-> 0, via |-> "none", unit |-> NoUnit]
    /\ last_op = <<>>
    /\ phase = PHASE_EMPTY
    /\ lp = [p \in Players |-> DEFAULT_LP]
    /\ replay = NoReplay
    /\ shuffle \in {[NoShuffle EXCEPT !.v = v, !.out = v, !.first = f, !.last = l] :
                        v \in ShuffleVectors, f \in ShuffleFirsts, l \in ShuffleLasts}
    /\ stack = <<>>
    /\ guard = 0
    /\ blocked = FALSE
    /\ opened = NoFile

\* the pending call runs, drawing the words ws from the generator
ShuffleVector ==
    /\ ~shuffle.done
    /\ \E ws \in SeqsUpTo(Words, MaxShuffleWords) :
          LET sh == shuffle_vector(shuffle.v, shuffle.first, shuffle.last, ws)
          IN /\ sh.ok /\ sh.rest = <<>>
             /\ shuffle' = [shuffle EXCEPT !.done = TRUE, !.out = sh.v,
                                           !.used = Len(ws), !.swaps = sh.swaps]
    /\ UNCHANGED <<cards, field, random, chain, processor_units, turn, turn_player, effects,
                   triggered_effects, response, pc, result, call, last_op, phase, lp, replay,
                   stack, guard, blocked, opened>>

(* --------------------------- specifications ---------------------------- *)

\* the arena and the field under the mutation primitives and the action bindings
NextField ==
    \/ CreateCard(MaxCards, Always)
    \/ LoadDeck(Codes, MaxDeckLen, MaxCards)
    \/ MoveCard
    \/ Draw
    \/ ShuffleDeck
    \/ LuaSummon(MaxCards)
    \/ LuaSendtoGrave(MaxCards)

SpecField == Init /\ [][NextField]_vars

\* the processor queue, the event bus and the chain
NextProc ==
    \/ CreateCard(MaxProcCards, BeforeStart)
    \/ LuaRegisterEffect(0..(Len(cards) - 1), ProcConditions, ProcOperations)
    \/ SetResponse
    \/ PushFront
    \/ Process

SpecProc == Init /\ [][NextProc]_vars

\* the event bus and the chain driven through the script bindings, as the
\* tests of duel.rs drive them: summon, then resolve_chain
NextChain ==
    \/ CreateCard(MaxChainCards, Always)
    \/ LuaRegisterEffect(0..(Len(cards) - 1), Conditions, Operations)
    \/ LuaSummon(MaxChainCards)
    \/ ResolveChainCall
    \/ ResolveStep
    \/ ResolveReturn

SpecChain == Init /\ [][NextChain]_vars

\* events raised over effects whose conditions fail or return other values
NextRaise ==
    \/ CreateCard(MaxChainCards, Always)
    \/ LuaRegisterEffect(0..(Len(cards) - 1), RaiseConditions, {"none"})
    \/ LuaSummon(MaxChainCards)

SpecRaise == Init /\ [][NextRaise]_vars

\* registration of effects by scripts and by the host, on ids inside and
\* outside the card arena
NextEffects ==
    \/ CreateCard(MaxCards, Always)
    \/ LuaRegisterEffect(0..MaxCards, {"none", "true"}, {"none"})
    \/ RegisterEffect

SpecEffects == Init /\ [][NextEffects]_vars

\* groups of cards sent to the grave from the decks, hands and monster zones
NextGroup ==
    \/ CreateCard(MaxCards, Always)
    \/ Draw
    \/ LuaSummon(MaxCards)
    \/ LuaSendtoGraveGroup

SpecGroup == Init /\ [][NextGroup]_vars

\* decks of several codes loaded and shuffled
NextLoad ==
    \/ LoadDeck(LoadCodes, MaxLoadLen, MaxLoadCards)
    \/ ShuffleDeck

SpecLoad == Init /\ [][NextLoad]_vars

\* replays loaded into a duel that is shuffled and stepped; with no effect
\* registered, process() takes the Turn, PhaseEvent(DRAW), PointEvent and
\* empty-queue branches only
NextReplay ==
    \/ LoadReplay
    \/ ShuffleDeck
    \/ ProcessTurn
    \/ ProcessPhaseDraw
    \/ ProcessPointEvent
    \/ ProcessEnd

SpecReplay == Init /\ [][NextReplay]_vars

\* resolve_chain on its own: the host summons, then calls resolve_chain, whose
\* loop runs on the calling thread until it returns
\* effects registered in the specification of the loop: with one effect an
\* iteration pushes at most the link it popped and the chain stays within MaxChain
MaxResolveEffects == 1
ResolveConditions == {"true", "false"}
ResolveOperations == {"none", "tograve", "summon"}

NextResolve ==
    \/ CreateCard(MaxChainCards, Always)
    \/ (Len(effects) < MaxResolveEffects
           /\ LuaRegisterEffect(0..(Len(cards) - 1), ResolveConditions, ResolveOperations))
    \/ LuaSummon(MaxChainCards)
    \/ ResolveChainCall
    \/ ResolveStepRecent
    \/ ResolveReturn

SpecResolve ==
    /\ Init
    /\ [][NextResolve]_vars
    /\ WF_vars(ResolveStepRecent)
    /\ WF_vars(ResolveReturn)

\* the engine thread stepping through its calls, with every branch open
NextLock ==
    \/ HostCall
    \/ StepLock
    \/ StepUnlock
    \/ StepCall
    \/ StepGoto
    \/ StepRet

SpecLock == Init /\ [][NextLock]_vars

\* Replay::open on the files of the sample
NextOpen == OpenReplay

SpecOpen == InitOpen /\ [][NextOpen]_vars

\* shuffle_vector on a vector of its own, and shuffle_deck on the decks
NextShuffle ==
    \/ ShuffleVector
    \/ CreateCard(MaxCards, Always)
    \/ ShuffleDeck

SpecShuffle == InitShuffle /\ [][NextShuffle]_vars

(* ------------------------- field and card records ----------------------- *)

StackNames == {"deck", "hand", "grave", "remove", "extra"}
ZoneNames == {"mzone", "szone"}

\* the entries of the field holding CardId id: <<stack, player, index>> for a
\* stack position and <<zone, player, slot>> for a zone slot
EntriesOf(id) ==
    UNION {{<<st, p, i>> : i \in {j \in 0..(Len(field[st][p]) - 1) : field[st][p][j + 1] = id}} :
              st \in StackNames, p \in Players}
    \cup
    UNION {{<<z, p, i>> : i \in {j \in DOMAIN field[z][p] : field[z][p][j] = id}} :
              z \in ZoneNames, p \in Players}

\* C1: single location. In every state reachable by create_card, load_deck,
\* move_card, draw, shuffle_deck, Duel.Summon and Duel.SendtoGrave, every CardId
\* of the arena is held by exactly one entry of the field.
C1_SingleLocation ==
    \A id \in 0..(Len(cards) - 1) : Cardinality(EntriesOf(id)) = 1

\* C2: sequence agreement. In every reachable state, every card held by a stack
\* or a zone slot records as its sequence the index of that entry.
C2_SequenceAgreement ==
    \A id \in 0..(Len(cards) - 1) :
        \A e \in EntriesOf(id) : cards[id + 1].sequence = e[3]

(* ------------------------------ the chain ------------------------------- *)

\* C3: snapshot immutability. For every chain link pushed by RaiseEvent, the
\* 8-tuple (e, tp, eg, ep, ev, re, r, rp) delivered to the operation at
\* resolution is the tuple that was delivered to the condition at trigger time.
C3_SnapshotImmutable ==
    \A i \in 1..Len(last_op) :
        (last_op[i].link.cond_args # NoArgs /\ last_op[i].args # NoArgs)
            => last_op[i].args = last_op[i].link.cond_args

\* C4: LIFO resolution. Links are pushed at the end of the chain and every
\* iteration of resolve_chain takes the link at the end, leaving every older
\* link in place: of two links pushed with no pop in between, the later one is
\* resolved first.
C4_LifoResolution ==
    [][/\ (pc = "resolve" /\ pc' = "resolve") =>
            /\ chain # <<>>
            /\ Len(last_op') = 1
            /\ last_op'[1].link = chain[Len(chain)]
            /\ Len(chain') >= Len(chain) - 1
            /\ SubSeq(chain', 1, Len(chain) - 1) = SubSeq(chain, 1, Len(chain) - 1)
       /\ (pc = "idle" /\ pc' = "idle") =>
            /\ Len(chain') >= Len(chain)
            /\ SubSeq(chain', 1, Len(chain)) = chain
      ]_vars

\* C4 witness: one Duel.Summon pushed the links of effects 0 and 1 in scan
\* order; resolve_chain has run the operation of effect 1 and the link of
\* effect 0 is still on the chain.
C4_Witness ==
    /\ pc = "resolve"
    /\ Len(chain) = 1
    /\ chain[1].effect_id = 0
    /\ last_op # <<>>
    /\ last_op[1].link.effect_id = 1
    /\ last_op[1].link.evt_group = chain[1].evt_group
    /\ last_op[1].link.reason_player = chain[1].reason_player
    /\ last_op[1].args # NoArgs

(* ----------------------------- process() ------------------------------- *)

\* this step is the entry of a process() call
IsProcessCall == pc = "idle" /\ call'.tick # call.tick

\* this step is a process() call that finds the chain empty and a unit of the
\* given type at the front
DispatchOf(type_) ==
    /\ IsProcessCall
    /\ chain = <<>>
    /\ processor_units # <<>>
    /\ Head(processor_units).type_ = type_

\* C5: chain priority. A process() call that finds the chain non-empty enters
\* resolve_chain and leaves the queue alone for the whole call; it returns
\* Continue, and the chain is empty when it returns.
C5_ChainPriority ==
    [][/\ (IsProcessCall /\ chain # <<>>) =>
            /\ pc' = "resolve"
            /\ call'.via = "chain"
            /\ processor_units' = processor_units
            /\ chain' = chain
       /\ (pc = "resolve" /\ call.via = "chain") =>
            /\ processor_units' = processor_units
            /\ pc' = "idle" => (chain = <<>> /\ chain' = <<>> /\ result' = "Continue")
      ]_vars

\* C5 witness: a process() call taken with a non-empty chain has returned
\* after running an operation; the PointEvent pushed by the draw phase is
\* still the front unit.
C5_Witness ==
    /\ pc = "idle"
    /\ call.via = "chain"
    /\ result = "Continue"
    /\ chain = <<>>
    /\ last_op # <<>>
    /\ last_op[1].args # NoArgs
    /\ processor_units # <<>>
    /\ Front.type_ = "PointEvent"

\* C6: processing a Turn unit increments the turn counter by exactly one.
C6_TurnIncrements ==
    [][DispatchOf("Turn") => turn' = turn + 1]_vars

\* C7: processing a Turn unit sets the turn player. The first Turn unit
\* (turn 0 becoming turn 1) consumes exactly one RNG word and turn_player
\* becomes a player index; every later Turn unit flips turn_player and
\* consumes no RNG word.
C7_TurnPlayer ==
    [][DispatchOf("Turn") =>
          IF turn = 0
          THEN random'.mti = random.mti + 1 /\ turn_player' \in Players
          ELSE turn_player' = 1 - turn_player /\ random' = random
      ]_vars

\* the effects RaiseEvent(code) triggers: matching code, condition absent or true
RECURSIVE PassingFrom(_, _)
PassingFrom(code, idx) ==
    IF idx >= Len(effects)
    THEN <<>>
    ELSE (IF effects[idx + 1].code = code /\ effects[idx + 1].condition \in {"none", "true"}
          THEN <<idx>>
          ELSE <<>>) \o PassingFrom(code, idx + 1)

C9_MainWaits ==
    [][(/\ DispatchOf("PhaseEvent")
        /\ Head(processor_units).arg1 \in {PHASE_MAIN1, PHASE_MAIN2}) =>
          /\ result' = "Waiting"
          /\ pc' = "idle"
          /\ UNCHANGED <<cards, field, random, chain, processor_units, turn,
                         turn_player, effects, triggered_effects, response>>
      ]_vars

\* C9 witness: process() was called with PhaseEvent(MAIN2) at the front and
\* returned Waiting; the unit is still at the front, above PhaseEvent(MAIN1).
C9_Witness ==
    /\ pc = "idle"
    /\ result = "Waiting"
    /\ call.unit = ProcessorUnit_phase_event(0, PHASE_MAIN2)
    /\ Len(processor_units) = 2
    /\ Front = ProcessorUnit_phase_event(0, PHASE_MAIN2)
    /\ processor_units[2] = ProcessorUnit_phase_event(0, PHASE_MAIN1)
    /\ cards # <<>>

\* C10: PointEvent. With no triggered effect the unit is popped and nothing is
\* pushed; otherwise SelectChain with step 0 replaces it at the front and
\* triggered_effects is unchanged; process() returns Continue in both cases.
C10_PointEvent ==
    [][DispatchOf("PointEvent") =>
          /\ IF triggered_effects = <<>>
             THEN processor_units' = Tail(processor_units)
             ELSE processor_units' =
                     <<ProcessorUnit_new("SelectChain", 0, 0, 0)>> \o Tail(processor_units)
          /\ triggered_effects' = triggered_effects
          /\ result' = "Continue"
          /\ pc' = "idle"
          /\ UNCHANGED <<cards, field, random, chain, turn, turn_player, effects, response>>
      ]_vars

\* C10 witness: PointEvent was processed with a triggered effect pending:
\* SelectChain(step 0) is at the front and the effect is still listed.
C10_Witness ==
    /\ pc = "idle"
    /\ call.unit.type_ = "PointEvent"
    /\ result = "Continue"
    /\ processor_units # <<>>
    /\ Front = ProcessorUnit_new("SelectChain", 0, 0, 0)
    /\ triggered_effects # <<>>

(* ----------------------------- SelectChain ------------------------------ *)

\* C11: SelectChain is a two-step interaction. The call that finds a SelectChain
\* unit with step 0 returns Waiting, leaves that unit at the front with step 1
\* and changes nothing else: triggered_effects and the stored response are as
\* before, whatever the response is.
C11_SelectChainStep0 ==
    [][(DispatchOf("SelectChain") /\ Head(processor_units).step = 0) =>
          /\ processor_units' =
                <<ProcessorUnit_new("SelectChain", 1, 0, 0)>> \o Tail(processor_units)
          /\ result' = "Waiting"
          /\ pc' = "idle"
          /\ UNCHANGED <<cards, field, random, chain, turn, turn_player, effects,
                         triggered_effects, response>>
      ]_vars

\* C11 witness: step 0 has run while a non-zero response was already stored:
\* the unit waits at step 1, the response and the triggered effects are kept.
C11_Witness ==
    /\ pc = "idle"
    /\ call.unit = ProcessorUnit_new("SelectChain", 0, 0, 0)
    /\ result = "Waiting"
    /\ processor_units # <<>>
    /\ Front = ProcessorUnit_new("SelectChain", 1, 0, 0)
    /\ response # 0
    /\ triggered_effects # <<>>

\* this step is the process() call that finds SelectChain with step 1 at the front
SelectChainDecision == DispatchOf("SelectChain") /\ Head(processor_units).step = 1

\* the stored response names one of the triggered effects
ResponseMatches ==
    response # 0 /\ \E i \in 1..Len(triggered_effects) : triggered_effects[i] = response

\* C12: at SelectChain step 1, a non-zero response that equals the id of a
\* triggered effect adds that effect, and only it, to the chain: the chain
\* then holds exactly one link, for the selected effect.
C12_SelectionBuildsChain ==
    [][(SelectChainDecision /\ ResponseMatches) =>
          /\ Len(chain') = 1
          /\ chain'[1].effect_id = response
      ]_vars

\* C13: at SelectChain step 1 the unit is popped and process() returns
\* Continue; SolveChain(step 0) is the new front unit exactly when the response
\* is non-zero and matches a triggered effect id, PhaseEvent(MAIN1) otherwise
\* (response 0, or a non-zero response matching no triggered effect).
C13_SelectChainStep1 ==
    [][SelectChainDecision =>
          /\ result' = "Continue"
          /\ pc' = "idle"
          /\ processor_units' =
                <<IF ResponseMatches
                  THEN ProcessorUnit_new("SolveChain", 0, 0, 0)
                  ELSE ProcessorUnit_new("PhaseEvent", 0, PHASE_MAIN1, 0)>>
                \o Tail(processor_units)
      ]_vars

\* C13 witness: the decision was taken with a matching response: SolveChain
\* is at the front.
C13_Witness ==
    /\ pc = "idle"
    /\ call.unit = ProcessorUnit_new("SelectChain", 1, 0, 0)
    /\ result = "Continue"
    /\ processor_units # <<>>
    /\ Front = ProcessorUnit_new("SolveChain", 0, 0, 0)

\* C14: after SelectChain step 1, for every response value, triggered_effects
\* is empty and the stored response is 0.
C14_ResponseConsumed ==
    [][SelectChainDecision => (triggered_effects' = <<>> /\ response' = 0)]_vars

\* C14 witness: the decision was taken on a non-matching or zero response
\* with effects pending: MAIN1 follows, nothing is pending, the response is 0.
C14_Witness ==
    /\ pc = "idle"
    /\ call.unit = ProcessorUnit_new("SelectChain", 1, 0, 0)
    /\ result = "Continue"
    /\ processor_units # <<>>
    /\ Front = ProcessorUnit_phase_event(0, PHASE_MAIN1)
    /\ triggered_effects = <<>>
    /\ response = 0

(* ------------------------------ SolveChain ------------------------------ *)

\* C15: SolveChain(step 0). The call pops the unit and pushes PhaseEvent(MAIN1)
\* at the front, then runs resolve_chain without touching the queue again and
\* returns Continue; when it returns the chain is empty and PhaseEvent(MAIN1)
\* is the front unit.
C15_SolveChain ==
    [][/\ (DispatchOf("SolveChain") /\ Head(processor_units).step = 0) =>
            /\ processor_units' =
                  <<ProcessorUnit_new("PhaseEvent", 0, PHASE_MAIN1, 0)>>
                  \o Tail(processor_units)
            /\ pc' = "resolve"
            /\ call'.via = "solve"
            /\ UNCHANGED <<cards, field, random, chain, turn, turn_player, effects,
                           triggered_effects, response>>
       /\ (pc = "resolve" /\ call.via = "solve") =>
            /\ processor_units' = processor_units
            /\ pc' = "idle" =>
                  /\ chain' = <<>>
                  /\ result' = "Continue"
                  /\ Head(processor_units') = ProcessorUnit_new("PhaseEvent", 0, PHASE_MAIN1, 0)
      ]_vars

\* C15 witness: a SolveChain(step 0) call has returned: Continue, the chain is
\* empty and PhaseEvent(MAIN1) is at the front.
C15_Witness ==
    /\ pc = "idle"
    /\ call.via = "solve"
    /\ call.unit = ProcessorUnit_new("SolveChain", 0, 0, 0)
    /\ result = "Continue"
    /\ chain = <<>>
    /\ processor_units # <<>>
    /\ Front = ProcessorUnit_phase_event(0, PHASE_MAIN1)

\* C16: from a fresh duel with no effect triggering on the draw, process()
\* never returns End before PhaseEvent(MAIN1) is reached. (Once MAIN1 is at the
\* front it stays in the queue, so in such a duel End is never returned.)
C16_NoEndBeforeMain ==
    PassingFrom("EVENT_DRAW", 0) = <<>> => result # "End"

(* ------------------------------ RaiseEvent ------------------------------ *)

\* this step is a Duel.Summon call made by the host: no call of process() or
\* resolve_chain is in progress and neither arena grows
SummonStep ==
    /\ pc = "idle" /\ pc' = "idle"
    /\ Len(cards') = Len(cards)
    /\ effects' = effects
    /\ call' = call

\* the summon went through (the card was placed) or something was triggered
RaisedBySummon == field' # field \/ triggered_effects' # triggered_effects \/ chain' # chain

C18_DiscoveryOrder ==
    [][SummonStep =>
          LET n    == Len(triggered_effects)
              m    == Len(chain)
              newt == SubSeq(triggered_effects', n + 1, Len(triggered_effects'))
              newc == SubSeq(chain', m + 1, Len(chain'))
          IN /\ Len(triggered_effects') >= n
             /\ Len(chain') >= m
             /\ SubSeq(triggered_effects', 1, n) = triggered_effects
             /\ SubSeq(chain', 1, m) = chain
             /\ Len(newt) = Len(newc)
             /\ \A i \in 1..Len(newt) : newc[i].effect_id = newt[i]
             /\ \A i, j \in 1..Len(newt) : i < j => newt[i] < newt[j]
      ]_vars

\* C18 witness: one summon has triggered effects 0 and 1: both lists hold
\* them in arena order.
C18_Witness ==
    /\ pc = "idle"
    /\ triggered_effects = <<0, 1>>
    /\ Len(chain) = 2
    /\ chain[1].effect_id = 0
    /\ chain[2].effect_id = 1
    /\ chain[1].evt_group = chain[2].evt_group

(* ---------------------------- script errors ----------------------------- *)

\* the last operation resolve_chain called raised a script error
LastOperationFailed ==
    /\ last_op # <<>>
    /\ last_op[1].args # NoArgs
    /\ effects[last_op[1].link.effect_id + 1].operation = "error"

\* C19: a script error raised by an operation callback during chain
\* resolution is fatal to the process() call: the call returns a result other
\* than Continue, Waiting and End.
C19_OperationErrorFatal ==
    [][(/\ pc = "resolve"
        /\ call.via \in {"chain", "solve"}
        /\ pc' = "idle"
        /\ LastOperationFailed) =>
          result' \notin {"Continue", "Waiting", "End"}
      ]_vars

\* the effects a step appended to triggered_effects, and those it added to the chain
NewlyTriggered == {triggered_effects'[i] : i \in (Len(triggered_effects) + 1)..Len(triggered_effects')}
NewlyChained == {chain'[i].effect_id : i \in (Len(chain) + 1)..Len(chain')}

\* the conditions of an effect that does not answer with a boolean
FailingConditions == {"error", "nil", "value"}

\* C20: a condition callback that raises a script error, or returns something
\* other than a boolean, resolves as "did not trigger": the event adds its
\* effect neither to triggered_effects nor to the chain.
C20_ConditionErrorNotTriggered ==
    [][SummonStep =>
          \A id \in NewlyTriggered \cup NewlyChained :
              effects[id + 1].condition \notin FailingConditions
      ]_vars

\* the part of C20 about a raised error: such an effect is not triggered, and
\* the candidates after it are still evaluated
C20_RaisedErrorNotTriggered ==
    [][(SummonStep /\ RaisedBySummon) =>
          /\ \A id \in NewlyTriggered \cup NewlyChained : effects[id + 1].condition # "error"
          /\ \A id \in 0..(Len(effects) - 1) :
                (effects[id + 1].code = "EVENT_SUMMON_SUCCESS" /\ effects[id + 1].condition = "true")
                    => id \in NewlyTriggered
      ]_vars

(* ------------------------- failing mutations --------------------------- *)

ZoneLocs == {LOCATION_MZONE, LOCATION_SZONE}
ZoneSize(loc) == IF loc = LOCATION_MZONE THEN MZONE_SIZE ELSE SZONE_SIZE
\* the occupant of a zone slot, None for an empty slot
Occupant(p, loc, seq) == IF loc = LOCATION_MZONE THEN field.mzone[p][seq] ELSE field.szone[p][seq]

\* move_card cannot find the card at the place its record names
SourceNotFound(card_id) == ~HasCard(Data, card_id) \/ RemoveFromCurrent(Data, card_id).removed = None

\* the target is a zone index past the zone's last slot
OutOfRange(loc, seq) == loc \in ZoneLocs /\ seq >= ZoneSize(loc)

\* the arguments MoveCard passes to move_card
MoveArgs == {a \in (0..MaxCards) \X Players \X MoveLocs \X MoveSeqs : IsStackLoc(a[3]) => a[4] = 0}

\* C21: move_card into a monster or spell/trap slot occupied by another card
\* returns false and changes neither the field nor any card record.
C21_OccupiedSlotRefused ==
    \A a \in MoveArgs :
        (/\ a[3] \in ZoneLocs
         /\ a[4] < ZoneSize(a[3])
         /\ Occupant(a[2], a[3], a[4]) \notin {None, a[1]}) =>
            LET r == move_card_internal(Data, a[1], a[2], a[3], a[4])
            IN ~r.ok /\ r.d = Data

\* C22: move_card returns false when the source of the card cannot be found
\* and when the target zone index is out of range, and in the latter case the
\* card stays at its source.
C22_MoveFailures ==
    \A a \in MoveArgs :
        LET r == move_card_internal(Data, a[1], a[2], a[3], a[4])
        IN /\ SourceNotFound(a[1]) => ~r.ok
           /\ OutOfRange(a[3], a[4]) => (~r.ok /\ r.d.field = field /\ r.d.cards = cards)

\* C23: a mutation primitive that returns false has changed nothing, the
\* reason field of the card included; for move_card and for send_card_to as
\* Duel.SendtoGrave and Duel.Summon call it.
C23_FalseReturnNoMutation ==
    /\ \A a \in MoveArgs :
          LET r == move_card_internal(Data, a[1], a[2], a[3], a[4])
          IN ~r.ok => r.d = Data
    /\ \A card_id \in 0..(Len(cards) - 1), reason \in {0, REASON_EFFECT} :
          LET r == send_card_to(Data, card_id, cards[card_id + 1].owner, LOCATION_GRAVE, reason)
          IN ~r.ok => r.d = Data
    /\ \A card_id \in 0..MaxCards, p \in Players :
          LET r == send_card_to(Data, card_id, p, LOCATION_MZONE, 0)
          IN ~r.ok => r.d = Data

\* the part of C22 and C23 about move_card alone
C23_MoveFalseNoMutation ==
    \A a \in MoveArgs :
        LET r == move_card_internal(Data, a[1], a[2], a[3], a[4])
        IN /\ SourceNotFound(a[1]) => ~r.ok
           /\ ~r.ok => r.d = Data

(* -------------------------- effect registration ------------------------ *)

\* C24: Card(id):RegisterEffect(e) with id outside the card arena changes
\* nothing: no card's effect list changes and the effect arena does not grow.
C24_OutOfRangeRegistration ==
    [][\A card_id \in Len(cards)..MaxCards, code \in EventCodes, cond \in {"none", "true"} :
          (/\ cards' = Card_RegisterEffect(Data, card_id, code, cond, "none").cards
           /\ effects' = Card_RegisterEffect(Data, card_id, code, cond, "none").effects)
              => (cards' = cards /\ effects' = effects)
      ]_vars

\* C25: every EffectId in a card's effect list indexes an effect of the arena
\* whose owner is that card.
C25_EffectOwnership ==
    \A c \in 0..(Len(cards) - 1) :
        \A i \in 1..Len(cards[c + 1].effects) :
            LET e == cards[c + 1].effects[i]
            IN e >= 0 /\ e < Len(effects) /\ effects[e + 1].owner = c

(* ------------------------------- draw ---------------------------------- *)

Min(a, b) == IF a < b THEN a ELSE b
\* the sequence s back to front
Reverse(s) == [i \in 1..Len(s) |-> s[Len(s) + 1 - i]]
\* the counts Draw passes to draw
DrawCounts == 0..2

\* C26: draw(player, n) moves the last min(n, |deck|) cards of the player's
\* deck, last card first, to the end of the player's hand; with an empty deck
\* nothing changes; deck size plus hand size is kept and the stacks and zones
\* of the other player, and every other stack of this player, are unchanged.
C26_Draw ==
    [][\A p \in Players, n \in DrawCounts :
          Data' = draw(Data, p, n) =>
              LET dk == field.deck[p]
                  k  == Min(n, Len(dk))
              IN /\ field'.deck[p] = SubSeq(dk, 1, Len(dk) - k)
                 /\ field'.hand[p] = field.hand[p] \o Reverse(SubSeq(dk, Len(dk) - k + 1, Len(dk)))
                 /\ Len(field'.deck[p]) + Len(field'.hand[p]) = Len(dk) + Len(field.hand[p])
                 /\ field' = [field EXCEPT !.deck[p] = field'.deck[p], !.hand[p] = field'.hand[p]]
                 /\ dk = <<>> => UNCHANGED vars
      ]_vars

\* draw(0, 2) has moved both cards of a two-card deck: card 0, created first,
\* was drawn first
C26_Witness ==
    /\ Len(cards) = 2
    /\ field.deck[0] = <<>>
    /\ field.hand[0] = <<0, 1>>
    /\ cards[1].location = LOCATION_HAND /\ cards[1].sequence = 0
    /\ cards[2].location = LOCATION_HAND /\ cards[2].sequence = 1

(* ---------------------------- create_card ------------------------------ *)

\* C27: create_card(code, owner) returns the number of cards created before
\* it, appends a record with that code, owner = controller = owner and location
\* DECK to the arena, and inserts the id at index 0 of the owner's deck, the end
\* opposite to the one draw takes from: of the cards of that deck the new one
\* is drawn last. Nothing else changes.
C27_CreateCard ==
    [][\A code \in Codes, owner \in Players :
          Data' = create_card(Data, code, owner).d =>
              LET id == create_card(Data, code, owner).id
                  dk == field'.deck[owner]
                  dr == draw(Data', owner, Len(dk))
              IN /\ id = Len(cards)
                 /\ Len(cards') = Len(cards) + 1
                 /\ SubSeq(cards', 1, Len(cards)) = cards
                 /\ cards'[id + 1].code = code
                 /\ cards'[id + 1].owner = owner
                 /\ cards'[id + 1].controller = owner
                 /\ cards'[id + 1].location = LOCATION_DECK
                 /\ dk = <<id>> \o field.deck[owner]
                 /\ field' = [field EXCEPT !.deck[owner] = dk]
                 /\ dr.field.deck[owner] = <<>>
                 /\ dr.field.hand[owner] = field.hand[owner] \o Reverse(field.deck[owner]) \o <<id>>
                 /\ UNCHANGED <<random, chain, effects, triggered_effects>>
      ]_vars

\* two cards created for player 0: the second one is at index 0 of the deck
C27_Witness ==
    /\ Len(cards) = 2
    /\ field.deck[0] = <<1, 0>>
    /\ cards[1].owner = 0 /\ cards[1].location = LOCATION_DECK
    /\ cards[2].owner = 0 /\ cards[2].controller = 0 /\ cards[2].location = LOCATION_DECK

(* ---------------------------- load_replay ------------------------------ *)

C29_LoadDeck ==
    [][\A p \in Players, main \in SeqsUpTo(LoadCodes, MaxLoadLen), extra \in SeqsUpTo(LoadCodes, MaxLoadLen) :
          (/\ Len(cards) + Len(main) + Len(extra) <= MaxLoadCards
           /\ Data' = load_deck(Data, p, main, extra)) =>
              LET n == Len(cards)
                  m == Len(main)
                  e == Len(extra)
                  dk == field'.deck[p]
                  ex == field'.extra[p]
              IN /\ Len(cards') = n + m + e
                 /\ SubSeq(cards', 1, n) = cards
                 /\ Len(dk) = m
                 /\ Len(ex) = e
                 /\ \A i \in 1..m :
                       /\ dk[i] >= n /\ dk[i] < n + m + e
                       /\ cards'[dk[i] + 1].code = main[m + 1 - i]
                       /\ cards'[dk[i] + 1].owner = p
                       /\ cards'[dk[i] + 1].location = LOCATION_DECK
                 /\ \A i \in 1..e :
                       /\ ex[i] >= n /\ ex[i] < n + m + e
                       /\ cards'[ex[i] + 1].code = extra[i]
                       /\ cards'[ex[i] + 1].owner = p
                       /\ cards'[ex[i] + 1].location = LOCATION_EXTRA
                 /\ \A i, j \in 1..m : i # j => dk[i] # dk[j]
                 /\ \A i, j \in 1..e : i # j => ex[i] # ex[j]
                 /\ \A i \in 1..m, j \in 1..e : dk[i] # ex[j]
                 /\ field' = [field EXCEPT !.deck[p] = dk, !.extra[p] = ex]
      ]_vars

\* load_deck(0, [11, 12], [12]) on a duel that held a card of player 0 and one
\* of player 1 in their decks: the deck of player 0 lists 12 before 11
C29_Witness ==
    /\ Len(cards) >= 4
    /\ Len(field.deck[0]) = 2
    /\ cards[field.deck[0][1] + 1].code = 12
    /\ cards[field.deck[0][2] + 1].code = 11
    /\ Len(field.extra[0]) = 1
    /\ cards[field.extra[0][1] + 1].code = 12
    /\ field.deck[1] # <<>>

(* ----------------------------- determinism ----------------------------- *)

\* C30: determinism. The state an engine call leaves is a function of the
\* state it started in and of its inputs, so two runs given the same inputs
\* stay in identical states; in particular Duel.SendtoGrave on a Group leaves
\* one and the same state whichever way the run happens to hold the Group.
C30_Determinism ==
    \A g \in Groups, reason \in {0, REASON_EFFECT} :
        \A o1, o2 \in IterationOrders(g) :
            Duel_SendtoGrave_Group(Data, o1, reason) = Duel_SendtoGrave_Group(Data, o2, reason)

(* ------------------------------ the shuffle ----------------------------- *)

\* the number of positions of v holding x
Occurrences(v, x) == Cardinality({k \in 1..Len(v) : v[k] = x})

\* v and w hold the same multiset of elements
SameMultiset(v, w) ==
    /\ Len(v) = Len(w)
    /\ \A k \in 1..Len(v) : Occurrences(v, v[k]) = Occurrences(w, v[k])

\* the vector after the swaps of the log have been applied in order
RECURSIVE ApplySwaps(_, _)
ApplySwaps(v, log) ==
    IF log = <<>>
    THEN v
    ELSE ApplySwaps([v EXCEPT ![Head(log).i + 1] = v[Head(log).r + 1],
                              ![Head(log).r + 1] = v[Head(log).i + 1]], Tail(log))

\* a step that runs the pending shuffle_vector call
ShuffleRuns == ~shuffle.done /\ shuffle'.done

\* the end of the range shuffle_vector works on: last = min(last, v.len())
ShuffleEnd(sh) == Min(sh.last, Len(sh.v))

\* C32: the shuffle is a permutation. After shuffle_vector(v, first, last) the
\* vector holds the same multiset of elements as before and the elements at
\* indices outside [first, min(last, len)) are the ones that were there; after
\* shuffle_deck(player) the deck of the player holds the same multiset of
\* cards, and no other stack, no zone and no card record has changed.
C32_ShufflePermutation ==
    [][/\ ShuffleRuns =>
             /\ SameMultiset(shuffle.v, shuffle'.out)
             /\ \A k \in 1..Len(shuffle.v) :
                    (k - 1 < shuffle.first \/ k - 1 >= ShuffleEnd(shuffle))
                        => shuffle'.out[k] = shuffle.v[k]
       /\ random'.mti # random.mti =>
             \E p \in Players :
                 /\ SameMultiset(field.deck[p], field'.deck[p])
                 /\ field' = [field EXCEPT !.deck[p] = field'.deck[p]]
                 /\ cards' = cards
      ]_vars

\* shuffle_vector(<<10, 20, 30>>, 1, usize::MAX) has moved the last two
\* elements, and shuffle_deck has reordered a deck of two cards
C32_Witness ==
    /\ shuffle.done
    /\ shuffle.v = <<10, 20, 30>> /\ shuffle.first = 1 /\ shuffle.last = USIZE_MAX
    /\ shuffle.out = <<10, 30, 20>>
    /\ random.mti > 0
    /\ \E p \in Players : field.deck[p] = <<0, 1>>

\* C33: the order in which the shuffle consumes the generator.
\* shuffle_vector(v, first, last), last being the end it works on, performs for
\* i = first, first + 1, ..., last - 2 in that order exactly one ranged draw
\* over [i, last - 1] and swaps index i with the drawn index r, where
\* i <= r <= last - 1; on a range of fewer than two elements it consumes no
\* word of the generator.
C33_ShuffleOrder ==
    [][ShuffleRuns =>
          LET sh    == shuffle'
              last  == ShuffleEnd(sh)
              draws == IF last - 1 > sh.first THEN last - 1 - sh.first ELSE 0
          IN /\ Len(sh.swaps) = draws
             /\ \A k \in 1..draws :
                    /\ sh.swaps[k].i = sh.first + k - 1
                    /\ sh.swaps[k].min = sh.swaps[k].i
                    /\ sh.swaps[k].max = last - 1
                    /\ sh.swaps[k].i <= sh.swaps[k].r
                    /\ sh.swaps[k].r <= last - 1
             /\ sh.out = ApplySwaps(sh.v, sh.swaps)
             /\ sh.used >= draws
             /\ (last - sh.first < 2 => sh.used = 0)
      ]_vars

\* a shuffle of three elements has made its two draws out of three words, the
\* first word having been redrawn
C33_Witness ==
    /\ shuffle.done
    /\ Len(shuffle.v) = 3 /\ shuffle.first = 0 /\ shuffle.last >= 3
    /\ Len(shuffle.swaps) = 2
    /\ shuffle.used = 3
    /\ shuffle.swaps[1].r = 2 /\ shuffle.swaps[2].r = 1

(* ------------------------- chain monotonicity --------------------------- *)

\* the first n links of the chain
ChainPrefix(links, n) == SubSeq(links, 1, n)

\* C34: chain monotonicity. No chain link is removed or reordered except by
\* being popped from the top inside resolve_chain: an iteration of the loop of
\* resolve_chain leaves every link below the top in place, and a step of any
\* other operation leaves the whole chain in place, links being only appended.
C34_ChainMonotone ==
    [][IF pc = "resolve" /\ chain # <<>>
       THEN /\ Len(chain') >= Len(chain) - 1
            /\ ChainPrefix(chain', Len(chain) - 1) = ChainPrefix(chain, Len(chain) - 1)
       ELSE /\ Len(chain') >= Len(chain)
            /\ ChainPrefix(chain', Len(chain)) = chain
      ]_vars

\* resolve_chain has popped and run the top link of a chain of two different
\* links and the bottom one is still there
C34_Witness ==
    /\ pc = "resolve"
    /\ last_op # <<>>
    /\ Len(chain) = 1
    /\ chain[1] # last_op[1].link
    /\ chain[1].effect_id < last_op[1].link.effect_id

(* ------------------------------ replay files ---------------------------- *)

\* C35: Replay::open rejects a corrupt header. For a file whose header id is
\* neither yrp1 (0x31707279) nor yrp2 (0x32707279), open() returns a parse
\* error instead of a Replay.
C35_CorruptHeaderRejected ==
    (opened.done /\ opened.file.id \notin {REPLAY_ID_YRP1, REPLAY_ID_YRP2}) => ~opened.res.ok

(* ----------------------------- no duplication --------------------------- *)

\* C36: no duplication. In every reachable state no CardId occupies more than
\* one entry of the field, across the stacks and the zone slots of both
\* players, also after a move that overwrites an occupied slot, a move whose
\* source slot holds a different card, and repeated load_deck calls.
C36_NoDuplication ==
    \A id \in 0..(Len(cards) - 1) : Cardinality(EntriesOf(id)) <= 1

\* card b was put on the monster slot card a held, then card a was moved to a
\* hand out of that slot, which took b off the field: a has its one entry and
\* b, still recorded on the slot, has none
C36_Witness ==
    \E a, b \in 0..(Len(cards) - 1) :
        /\ a # b
        /\ cards[a + 1].location = LOCATION_HAND
        /\ Cardinality(EntriesOf(a)) = 1
        /\ cards[b + 1].location = LOCATION_MZONE
        /\ cards[b + 1].sequence = 0
        /\ field.mzone[cards[b + 1].controller][0] = None
        /\ EntriesOf(b) = {}

(* ------------------------------ Duel.Summon ----------------------------- *)

\* C37: Duel.Summon(player, card) places the card in the smallest empty
\* monster-zone slot of that player, the one find_empty_mzone_slot finds, and
\* never displaces a card already in a monster zone; when all 7 slots are
\* occupied it returns 0, moves nothing and raises no event. Stated for the
\* cards that are not in a monster zone when they are summoned.
C37_SummonSlot ==
    \A player \in Players, card_id \in {c \in 0..(Len(cards) - 1) : ~Contains(cards[c + 1].location, LOCATION_MZONE)} :
        LET r    == Duel_Summon(Data, player, card_id)
            slot == Field_find_empty_mzone_slot(field, player)
        IN /\ r.count = 1 =>
                /\ slot # None
                /\ r.d.field.mzone[player][slot] = card_id
                /\ \A p \in Players, i \in 0..(MZONE_SIZE - 1) :
                       (field.mzone[p][i] # None /\ field.mzone[p][i] # card_id)
                           => r.d.field.mzone[p][i] = field.mzone[p][i]
           /\ slot = None => (r.count = 0 /\ r.d = Data)

(* ------------------------- the decision of SelectChain ------------------ *)

\* process() is about to run step 1 of SelectChain
AtSelectChainStep1 ==
    /\ pc = "idle"
    /\ chain = <<>>
    /\ processor_units # <<>>
    /\ Head(processor_units).type_ = "SelectChain"
    /\ Head(processor_units).step = 1

\* C38: every triggered effect is selectable. For every EffectId e in
\* triggered_effects at step 1 of SelectChain, the first registered effect of
\* id 0 included, there is a response value that makes the step push
\* SolveChain for e: a response the step takes as an activation and matches
\* with e.
C38_TriggeredSelectable ==
    AtSelectChainStep1 =>
        \A i \in 1..Len(triggered_effects) :
            \E r \in Responses :
                r # 0 /\ FoundMatchingEffect(r, <<triggered_effects[i]>>)

\* an iteration of resolve_chain is about to run the operation of the top link,
\* a link of an effect registered for the DRAW event
DrawOperationRuns ==
    /\ pc = "resolve"
    /\ chain # <<>>
    /\ LET e == chain[Len(chain)].effect_id
       IN /\ e >= 0 /\ e < Len(effects)
          /\ effects[e + 1].code = "EVENT_DRAW"
          /\ effects[e + 1].operation # "none"

\* C39: the decision of the player gates the resolution. The operation of an
\* effect triggered by the DRAW event of the draw phase is not executed before
\* the SelectChain decision for it has been consumed (step 1 of SelectChain
\* empties triggered_effects), and not at all when the response is 0: it is
\* executed only by the resolve_chain call of SolveChain, the unit step 1
\* pushes on a response other than 0.
C39_DecisionGatesOperation ==
    [][(DrawOperationRuns /\ last_op' # last_op) =>
           /\ \A i \in 1..Len(triggered_effects) :
                  triggered_effects[i] # chain[Len(chain)].effect_id
           /\ call.via = "solve"
      ]_vars

(* ------------------------------ termination ---------------------------- *)

\* C40: resolve_chain terminates. For every finite set of registered effects
\* and every finite chain, a resolve_chain call returns after finitely many
\* operation invocations with the chain empty, also when an operation
\* re-enters the engine through Duel.Summon and thereby raises an event that
\* pushes new links during the resolution.
C40_ResolveChainTerminates ==
    (pc = "resolve") ~> (pc = "idle" /\ chain = <<>>)

(* ------------------------------- reentrancy ----------------------------- *)

\* the frames above which the mutex must be free: the Lua functions, and
\* raise_event_static below a binding
CalledUnlocked(i) ==
    \/ stack[i].fn \in ScriptFns
    \/ stack[i].fn = "raise_event_static" /\ i > 1 /\ stack[i - 1].fn \in Bindings

\* C31: reentrancy. At every point where a script callback (condition or
\* operation) is invoked, and at every call of raise_event_static from inside
\* a binding such as Duel.Summon, the DuelData mutex is not held by the
\* caller or by any frame below it; hence a callback that re-enters the
\* engine through a binding never locks a mutex held further up its own call
\* stack.
C31_Reentrancy ==
    /\ ~blocked
    /\ \A i \in 1..Len(stack) : CalledUnlocked(i) => ~(guard \in 1..(i - 1))

\* an operation run by resolve_chain has called Duel.Summon, whose event has
\* called a condition, which has called a binding that holds the guard
C31_Witness ==
    /\ Len(stack) = 7
    /\ stack[1].fn = "resolve_chain"
    /\ stack[2].fn = "execute_effect_static"
    /\ stack[3].fn = "operation"
    /\ stack[4].fn = "Duel.Summon"
    /\ stack[5].fn = "raise_event_static"
    /\ stack[6].fn = "condition"
    /\ stack[7].fn = "e:GetHandler"
    /\ guard = 7

====
